---------------------------- MODULE Spec2Model ----------------------------
(***************************************************************************)
(* Controle Financeiro V2 (src/app.py): accounts, credit-card statements   *)
(* ("faturas"), ledger entries ("lancamentos"), statement payments         *)
(* ("pagamentos_fatura"), the money codec (br_money / parse_brl) and the   *)
(* installment allocator (_calc_valores_parcelas).                         *)
(*                                                                         *)
(* Money is counted in integer cents, as the NUMERIC(14,2) columns store   *)
(* it; a value a text field can carry with more decimals is counted in     *)
(* thousandths ("mil") until the code rounds it.  Dates are day numbers.   *)
(* SQL NULL is 0 for ids and dates and the NULL text for text columns.     *)
(***************************************************************************)
EXTENDS Integers, Sequences, FiniteSets, TLC

VARIABLES
    contas,         \* table contas:       id -> row
    faturas,        \* table faturas:      id -> row
    lancamentos,    \* table lancamentos:  id -> row
    pagamentos,     \* table pagamentos_fatura: set of rows
    seq_fat,        \* last value of faturas' BIGSERIAL
    seq_lanc,       \* last value of lancamentos' BIGSERIAL
    tx,             \* the connection of fc_pagar: position and uncommitted writes
    edit_row,       \* st.session_state["edit_row"]: id of the loaded entry, 0 if none
    msg,            \* how the last handler ended: "ok" (st.toast / toast_ok),
                    \* "aviso" (st.warning), "erro" (st.error), "excecao" (it raised)
    l_prev_df,      \* st.session_state["l_prev_df"]: the rows of the preview
    df_pend_cache,  \* the st.cache_data entry of the Boletos listing (cached_df)
    sess,           \* two browser sessions in fc_pagar: what each script run read,
                    \* its connection's position and uncommitted writes, how it ended
    parc,           \* one call of _calc_valores_parcelas: arguments and result
    money           \* one use of the money codec: value, text, parsed value

vars == <<contas, faturas, lancamentos, pagamentos, seq_fat, seq_lanc, tx, edit_row,
          msg, l_prev_df, df_pend_cache, sess, parc, money>>

ledgerVars == <<contas, faturas, lancamentos, pagamentos, seq_fat, seq_lanc, tx,
                edit_row, msg, l_prev_df, df_pend_cache, sess>>

\* the committed tables: what any query sees
store == <<contas, faturas, lancamentos, pagamentos>>

(***************************************************************************)
(* Bounds of the model.                                                    *)
(***************************************************************************)
MaxValorMil == 320      \* largest v_in given to the allocator, in thousandths
MaxDenso == 250         \* money values -MaxDenso..MaxDenso cents are all tried
MaxTextLen == 4         \* longest typed money text
MaxComp == 1            \* statement months (competencia) 1..MaxComp
MaxDate == 2            \* dates 1..MaxDate in the statement screens
MaxSeqFat == 2          \* values drawn from faturas' id sequence
MaxSeqLanc == 2         \* values drawn from lancamentos' id sequence

(***************************************************************************)
(* Program constants.                                                      *)
(***************************************************************************)
MaxParcelas == 60       \* st.number_input("Parcelas", max_value=60)

\* the NULL of a text column: a text of one mark that no keyboard types
NULL == << "<NULL>" >>

RECURSIVE SumSeq(_)
SumSeq(s) == IF s = <<>> THEN 0 ELSE Head(s) + SumSeq(Tail(s))

(***************************************************************************)
(* round(num/den, 2) counted in cents, num/den being a number of cents     *)
(* (den > 0).  Python rounds the binary double: the nearest cent, and at   *)
(* a decimal tie (x.xx5) whichever side the double nearest to the tie lies *)
(* on, which `up` stands for.                                              *)
(***************************************************************************)
Round2(num, den, up) ==
    LET q == num \div den
        r == num % den
    IN  IF 2 * r < den THEN q
        ELSE IF 2 * r > den THEN q + 1
        ELSE IF up THEN q + 1 ELSE q

(***************************************************************************)
(* Variants of _calc_valores_parcelas with a slip in them, used to show    *)
(* that the properties below depend on the allocator's arithmetic.         *)
(***************************************************************************)
calc_sem_residuo(v_in, n, modo, up1, up2) ==
    IF n <= 1 THEN << Round2(v_in, 10, up1) >>
    ELSE IF modo = "Total" THEN [i \in 1..n |-> Round2(v_in, 10 * n, up1)]
    ELSE [i \in 1..n |-> Round2(v_in, 10, up1)]

calc_trunca_base(v_in, n, modo, up1, up2) ==
    IF n <= 1 THEN << Round2(v_in, 10, up1) >>
    ELSE IF modo = "Total" THEN
        LET base == v_in \div (10 * n)
            vals == [i \in 1..n |-> base]
            last == Round2(10 * vals[n] + (v_in - 10 * SumSeq(vals)), 10, up2)
        IN  [vals EXCEPT ![n] = last]
    ELSE [i \in 1..n |-> Round2(v_in, 10, up1)]

(***************************************************************************)
(* _calc_valores_parcelas(v_in, n, modo): v_in in thousandths, the result  *)
(* in cents.  up1 and up2 are the tie sides of its first and second round. *)
(***************************************************************************)
calc_valores_parcelas(v_in, n, modo, up1, up2) ==
    IF n <= 1 THEN << Round2(v_in, 10, up1) >>
    ELSE IF modo = "Total" THEN
        LET base == Round2(v_in, 10 * n, up1)
            vals == [i \in 1..n |-> base]
            last == Round2(10 * vals[n] + (v_in - 10 * SumSeq(vals)), 10, up2)
        IN  [vals EXCEPT ![n] = last]
    ELSE [i \in 1..n |-> Round2(v_in, 10, up1)]


(***************************************************************************)
(* Money codec.  A text is a sequence of one-character strings.  A parsed  *)
(* value is a decimal [neg, ip, fd]: sign, integer part, and the fraction  *)
(* digits without trailing zeros (zero is never negative: -0.0 == 0.0).    *)
(***************************************************************************)
Digits == <<"0", "1", "2", "3", "4", "5", "6", "7", "8", "9">>
DigitSet == {Digits[i] : i \in 1..10}
DigitChar(d) == Digits[d + 1]
DigitVal(c) == CHOOSE d \in 0..9 : Digits[d + 1] = c

RECURSIVE NatDigits(_)
NatDigits(n) == IF n < 10 THEN << DigitChar(n) >>
                ELSE NatDigits(n \div 10) \o << DigitChar(n % 10) >>

RECURSIVE DigitsVal(_)
DigitsVal(ds) == IF ds = << >> THEN 0
                 ELSE 10 * DigitsVal(SubSeq(ds, 1, Len(ds) - 1)) + DigitVal(ds[Len(ds)])

RECURSIVE TrimZeros(_)
TrimZeros(ds) == IF ds # << >> /\ ds[Len(ds)] = "0"
                 THEN TrimZeros(SubSeq(ds, 1, Len(ds) - 1)) ELSE ds

Decimal(neg, ip, fd) ==
    [neg |-> neg /\ ~(ip = 0 /\ fd = << >>), ip |-> ip, fd |-> fd]

\* the decimal a float holding x cents is
OfCents(x) ==
    LET a == IF x < 0 THEN 0 - x ELSE x
    IN  Decimal(x < 0, a \div 100,
                TrimZeros(<< DigitChar((a % 100) \div 10), DigitChar(a % 10) >>))

Zero == Decimal(FALSE, 0, << >>)

\* str.replace(a, b) for one-character a and b, and str.replace(a, "")
Replace(s, a, b) == [i \in 1..Len(s) |-> IF s[i] = a THEN b ELSE s[i]]
Remove(s, a) == SelectSeq(s, LAMBDA c : c # a)
Has(s, a) == \E i \in 1..Len(s) : s[i] = a

\* the ',' grouping of format(v, ",.2f")
RECURSIVE Group3(_)
Group3(ds) == IF Len(ds) <= 3 THEN ds
              ELSE Group3(SubSeq(ds, 1, Len(ds) - 3)) \o <<",">>
                   \o SubSeq(ds, Len(ds) - 2, Len(ds))

\* f"{float(v):,.2f}" of a value of x cents
FormatEn(x) ==
    LET a == IF x < 0 THEN 0 - x ELSE x
    IN  (IF x < 0 THEN <<"-">> ELSE << >>)
        \o Group3(NatDigits(a \div 100))
        \o <<".">>
        \o << DigitChar((a % 100) \div 10), DigitChar(a % 10) >>

br_money(x) == Replace(Replace(Replace(FormatEn(x), ",", "X"), ".", ","), "X", ".")

RECURSIVE LStrip(_)
LStrip(s) == IF s # << >> /\ s[1] = " " THEN LStrip(Tail(s)) ELSE s
RECURSIVE RStrip(_)
RStrip(s) == IF s # << >> /\ s[Len(s)] = " " THEN RStrip(SubSeq(s, 1, Len(s) - 1)) ELSE s
Strip(s) == RStrip(LStrip(s))

\* t.replace("R$", "")
RECURSIVE RemoveRS(_)
RemoveRS(s) ==
    IF s = << >> THEN << >>
    ELSE IF Len(s) >= 2 /\ s[1] = "R" /\ s[2] = "$" THEN RemoveRS(SubSeq(s, 3, Len(s)))
    ELSE << s[1] >> \o RemoveRS(Tail(s))

\* re.sub(r"[^\d,.\-]", "", t)
KeepMoneyChars(s) == SelectSeq(s, LAMBDA c : c \in DigitSet \cup {",", ".", "-"})

\* float(t) for a text of digits, '.', '-' only; ValueError gives 0.0 (line 113)
FloatOr0(t) ==
    LET neg  == t # << >> /\ t[1] = "-"
        body == IF neg THEN Tail(t) ELSE t
        dots == {i \in 1..Len(body) : body[i] = "."}
        ok   == /\ \A i \in 1..Len(body) : body[i] \in DigitSet \cup {"."}
                /\ Cardinality(dots) <= 1
                /\ \E i \in 1..Len(body) : body[i] \in DigitSet
        dot  == IF dots = {} THEN Len(body) + 1 ELSE CHOOSE i \in dots : TRUE
    IN  IF ~ok THEN Zero
        ELSE Decimal(neg, DigitsVal(SubSeq(body, 1, dot - 1)),
                     TrimZeros(SubSeq(body, dot + 1, Len(body))))

\* parse_brl with a slip: the thousands '.' is kept when ',' is the decimal point
parse_brl_sem_milhar(s) ==
    LET t0 == Strip(s)
        t1 == KeepMoneyChars(Strip(RemoveRS(t0)))
        t2 == IF Has(t1, ",") THEN Replace(t1, ",", ".") ELSE t1
    IN  IF t0 = << >> THEN Zero ELSE FloatOr0(t2)

\* parse_brl with a slip: '.' is always taken as a thousands separator
parse_brl_ponto_milhar(s) ==
    LET t0 == Strip(s)
        t1 == KeepMoneyChars(Strip(RemoveRS(t0)))
        t2 == Replace(Remove(t1, "."), ",", ".")
    IN  IF t0 = << >> THEN Zero ELSE FloatOr0(t2)

\* parse_brl(s) for a str s
parse_brl(s) ==
    LET t0 == Strip(s)
        t1 == KeepMoneyChars(Strip(RemoveRS(t0)))
        t2 == IF Has(t1, ",") /\ Has(t1, ".") THEN Replace(Remove(t1, "."), ",", ".")
              ELSE IF Has(t1, ",") THEN Replace(t1, ",", ".")
              ELSE t1
    IN  IF t0 = << >> THEN Zero ELSE FloatOr0(t2)

(***************************************************************************)
(* The store after init_db() and seed_basico(): the three seeded accounts, *)
(* no statement, no entry, no payment.                                     *)
(***************************************************************************)
SeedContas ==
    (1 :> [nome |-> "Cora",        tipo |-> "CONTA",  ativo |-> TRUE, saldo_inicial |-> 0]) @@
    (2 :> [nome |-> "Cartao XP",   tipo |-> "CARTAO", ativo |-> TRUE, saldo_inicial |-> 0]) @@
    (3 :> [nome |-> "Cartao Itau", tipo |-> "CARTAO", ativo |-> TRUE, saldo_inicial |-> 0])

TxIdle == [pc |-> "idle"]

\* the browser sessions, and a session with no script run in fc_pagar
Sessoes == {1, 2}
SessIdle == [pc |-> "idle", msg |-> "none", fatura_id |-> 0]

\* cached_df holds no entry for the query: never run, expired (ttl=30) or
\* cleared by clear_cache
NoCache == [valid |-> FALSE, df |-> << >>]

LedgerInit ==
    /\ contas = SeedContas
    /\ faturas = << >>
    /\ lancamentos = << >>
    /\ pagamentos = {}
    /\ seq_fat = 0
    /\ seq_lanc = 0
    /\ tx = TxIdle
    /\ edit_row = 0
    /\ msg = "none"
    /\ l_prev_df = << >>
    /\ df_pend_cache = NoCache
    /\ sess = [s \in Sessoes |-> SessIdle]

ParcIdle == [pc |-> "idle"]
MoneyIdle == [pc |-> "idle"]

(***************************************************************************)
(* Text columns of lancamentos: a text is the sequence of its characters.  *)
(***************************************************************************)
Pendente == <<"P", "e", "n", "d", "e", "n", "t", "e">>
Recebido == <<"R", "e", "c", "e", "b", "i", "d", "o">>
Pago == <<"P", "a", "g", "o">>
Cancelado == <<"C", "a", "n", "c", "e", "l", "a", "d", "o">>

UpperCase == <<"A", "B", "C", "D", "E", "F", "G", "H", "I", "J", "K", "L", "M",
               "N", "O", "P", "Q", "R", "S", "T", "U", "V", "W", "X", "Y", "Z">>
LowerCase == <<"a", "b", "c", "d", "e", "f", "g", "h", "i", "j", "k", "l", "m",
               "n", "o", "p", "q", "r", "s", "t", "u", "v", "w", "x", "y", "z">>
LowerChar(c) ==
    IF \E i \in DOMAIN UpperCase : UpperCase[i] = c
    THEN LowerCase[CHOOSE i \in DOMAIN UpperCase : UpperCase[i] = c]
    ELSE c
LowerText(s) == [i \in 1..Len(s) |-> LowerChar(s[i])]

\* value LIKE pattern: the case-sensitive match
Like(value, pattern) == value = pattern

\* value ILIKE pattern, for the patterns of the source, which hold no % and no _
ILike(value, pattern) == LowerText(value) = LowerText(pattern)

\* COALESCE left out: a NULL stays NULL
SemCoalesce(v, d) == v

\* COALESCE(v, d)
Coalesce(v, d) == IF v = NULL THEN d ELSE v


(***************************************************************************)
(* Helpers on the tables.                                                  *)
(***************************************************************************)
DropKey(f, k) == [x \in DOMAIN f \ {k} |-> f[x]]

\* SELECT id, nome FROM contas WHERE tipo='CARTAO' AND ativo=TRUE
contas_cartao == {c \in DOMAIN contas : contas[c].tipo = "CARTAO" /\ contas[c].ativo}

\* SELECT id FROM contas WHERE nome='Cora' AND ativo=TRUE  (nome is UNIQUE)
cora == {c \in DOMAIN contas : contas[c].nome = "Cora" /\ contas[c].ativo}

\* list_faturas(conta_id)
list_faturas(c) == {f \in DOMAIN faturas : faturas[f].conta_id = c}

\* the label strftime("%m/%Y") gives a competencia
CompLabel(comp) == <<"mes", comp>>

(***************************************************************************)
(* Faturas tab.                                                            *)
(***************************************************************************)
\* faturas with no UNIQUE (conta_id, competencia): no row ever conflicts
faturas_sem_key(conta_id, competencia) == {}

\* UNIQUE (conta_id, competencia) of faturas: the rows an INSERT conflicts with
faturas_conta_id_competencia_key(conta_id, competencia) ==
    {f \in DOMAIN faturas :
        faturas[f].conta_id = conta_id /\ faturas[f].competencia = competencia}

\* f_save whose DO UPDATE also sets status = 'ABERTA'
f_save_reabre(cartao_id, competencia, dt_inicio, dt_fim, dt_fech, dt_venc) ==
    /\ tx.pc = "idle"
    /\ cartao_id \in contas_cartao
    /\ IF dt_inicio > dt_fim
       THEN /\ msg' = "erro"
            /\ UNCHANGED <<contas, faturas, lancamentos, pagamentos, seq_fat, seq_lanc,
                           tx, edit_row>>
       ELSE /\ seq_fat < MaxSeqFat
            /\ seq_fat' = seq_fat + 1
            /\ LET old == faturas_conta_id_competencia_key(cartao_id, competencia)
               IN  IF old = {}
                   THEN faturas' = faturas @@
                            (seq_fat' :> [conta_id |-> cartao_id,
                                          competencia |-> competencia,
                                          dt_inicio |-> dt_inicio,
                                          dt_fim |-> dt_fim,
                                          dt_fechamento |-> dt_fech,
                                          dt_vencimento |-> dt_venc,
                                          status |-> "ABERTA"])
                   ELSE faturas' = [f \in DOMAIN faturas |->
                            IF f \in old
                            THEN [faturas[f] EXCEPT !.dt_inicio = dt_inicio,
                                                    !.dt_fim = dt_fim,
                                                    !.dt_fechamento = dt_fech,
                                                    !.dt_vencimento = dt_venc,
                                                    !.status = "ABERTA"]
                            ELSE faturas[f]]
            /\ msg' = "ok"
            /\ UNCHANGED <<contas, lancamentos, pagamentos, seq_lanc, tx, edit_row>>

\* "Salvar fatura" (f_save): INSERT ... ON CONFLICT (conta_id, competencia) DO
\* UPDATE.  The id default is evaluated before the conflict is found, so the
\* sequence advances on an update too.
f_save(cartao_id, competencia, dt_inicio, dt_fim, dt_fech, dt_venc) ==
    /\ tx.pc = "idle"
    /\ cartao_id \in contas_cartao
    /\ IF dt_inicio > dt_fim
       THEN /\ msg' = "erro"
            /\ UNCHANGED <<contas, faturas, lancamentos, pagamentos, seq_fat, seq_lanc,
                           tx, edit_row>>
       ELSE /\ seq_fat < MaxSeqFat
            /\ seq_fat' = seq_fat + 1
            /\ LET old == faturas_conta_id_competencia_key(cartao_id, competencia)
               IN  IF old = {}
                   THEN faturas' = faturas @@
                            (seq_fat' :> [conta_id |-> cartao_id,
                                          competencia |-> competencia,
                                          dt_inicio |-> dt_inicio,
                                          dt_fim |-> dt_fim,
                                          dt_fechamento |-> dt_fech,
                                          dt_vencimento |-> dt_venc,
                                          status |-> "ABERTA"])
                   ELSE faturas' = [f \in DOMAIN faturas |->
                            IF f \in old
                            THEN [faturas[f] EXCEPT !.dt_inicio = dt_inicio,
                                                    !.dt_fim = dt_fim,
                                                    !.dt_fechamento = dt_fech,
                                                    !.dt_vencimento = dt_venc]
                            ELSE faturas[f]]
            /\ msg' = "ok"
            /\ UNCHANGED <<contas, lancamentos, pagamentos, seq_lanc, tx, edit_row>>

\* "Salvar alteracoes das faturas" (fat_save): the data editor holds every
\* statement; its dates and status are editable, and every row is written back.
\* Row f is the edited one: the rows left as read are rewritten with their own
\* values, and a save with several edited rows ends where the saves of each do.
fat_save(f, dt_inicio, dt_fim, dt_fech, dt_venc, status) ==
    /\ tx.pc = "idle"
    /\ f \in DOMAIN faturas
    /\ faturas' = [g \in DOMAIN faturas |->
                      IF g = f
                      THEN [faturas[g] EXCEPT !.dt_inicio = dt_inicio,
                                              !.dt_fim = dt_fim,
                                              !.dt_fechamento = dt_fech,
                                              !.dt_vencimento = dt_venc,
                                              !.status = status]
                      ELSE faturas[g]]
    /\ msg' = "ok"
    /\ UNCHANGED <<contas, lancamentos, pagamentos, seq_fat, seq_lanc, tx, edit_row>>

\* "Excluir fatura" (fat_del_btn): offered only when no entry is linked; the
\* DELETE itself fails on the foreign key of pagamentos_fatura.
fat_del_btn(f, confirm) ==
    /\ tx.pc = "idle"
    /\ f \in DOMAIN faturas
    /\ {l \in DOMAIN lancamentos : lancamentos[l].fatura_id = f} = {}
    /\ IF ~confirm
       THEN /\ msg' = "erro"
            /\ UNCHANGED faturas
       ELSE IF \E p \in pagamentos : p.fatura_id = f
       THEN /\ msg' = "excecao"
            /\ UNCHANGED faturas
       ELSE /\ faturas' = DropKey(faturas, f)
            /\ msg' = "ok"
    /\ df_pend_cache' = IF msg' = "ok" THEN NoCache ELSE df_pend_cache
    /\ UNCHANGED <<contas, lancamentos, pagamentos, seq_fat, seq_lanc, tx, edit_row>>

(***************************************************************************)
(* Fechamento tab.  The card and the statement are picked among the active *)
(* cards' statements; status_fat is the status list_faturas read in this   *)
(* run of the script.                                                      *)
(***************************************************************************)
FechamentoOffers(f) ==
    /\ tx.pc = "idle"
    /\ f \in DOMAIN faturas
    /\ faturas[f].conta_id \in contas_cartao

MarcarStatus(f, novo) ==
    /\ FechamentoOffers(f)
    /\ IF faturas[f].status = "PAGA"
       THEN /\ msg' = "aviso"
            /\ UNCHANGED faturas
       ELSE /\ faturas' = [faturas EXCEPT ![f].status = novo]
            /\ msg' = "ok"
    /\ UNCHANGED <<contas, lancamentos, pagamentos, seq_fat, seq_lanc, tx, edit_row>>

\* "Marcar como FECHADA"
fc_fechar(f) == MarcarStatus(f, "FECHADA")

\* "Marcar como ABERTA"
fc_abrir(f) == MarcarStatus(f, "ABERTA")

\* the entry fc_pagar inserts in the Cora account
LancSaida(f, valor_pg, dt_pg, cora_id) ==
    [tipo |-> "DESPESA",
     descricao |-> <<"Pagamento Fatura", contas[faturas[f].conta_id].nome,
                     CompLabel(faturas[f].competencia)>>,
     valor |-> valor_pg,
     dt_competencia |-> dt_pg,
     dt_liquidacao |-> dt_pg,
     conta_id |-> cora_id,
     fatura_id |-> 0,
     forma_pagamento |-> "Transferencia",
     status |-> Pago,
     prestacao |-> NULL]

\* fc_pagar with a slip: the entry is inserted on a connection of its own and
\* committed at once, as fetch_one does
fc_pagar_autocommit(f, valor_pg, dt_pg) ==
    /\ FechamentoOffers(f)
    /\ cora # {}
    /\ faturas[f].status # "PAGA"
    /\ valor_pg > 0
    /\ seq_lanc < MaxSeqLanc
    /\ seq_lanc' = seq_lanc + 1
    /\ LET cora_id == CHOOSE c \in cora : TRUE
       IN  /\ lancamentos' = lancamentos @@
                  (seq_lanc' :> LancSaida(f, valor_pg, dt_pg, cora_id))
           /\ tx' = [pc |-> "lanc_inserido", fatura_id |-> f, valor |-> valor_pg,
                     dt |-> dt_pg, lanc_id |-> seq_lanc',
                     lanc |-> LancSaida(f, valor_pg, dt_pg, cora_id)]
    /\ msg' = "none"
    /\ UNCHANGED <<contas, faturas, pagamentos, seq_fat, edit_row>>

\* "Pagar fatura" (fc_pagar), up to and including its first statement on the
\* connection: the guards, then INSERT INTO lancamentos ... RETURNING id, not
\* yet committed.  The sequence value is drawn outside the transaction.
fc_pagar(f, valor_pg, dt_pg) ==
    /\ FechamentoOffers(f)
    /\ cora # {}
    /\ IF faturas[f].status = "PAGA"
       THEN /\ msg' = "aviso"
            /\ UNCHANGED <<seq_lanc, tx>>
       ELSE IF valor_pg <= 0
       THEN /\ msg' = "erro"
            /\ UNCHANGED <<seq_lanc, tx>>
       ELSE /\ seq_lanc < MaxSeqLanc
            /\ seq_lanc' = seq_lanc + 1
            /\ LET cora_id == CHOOSE c \in cora : TRUE
               IN  tx' = [pc |-> "lanc_inserido", fatura_id |-> f, valor |-> valor_pg,
                          dt |-> dt_pg, lanc_id |-> seq_lanc',
                          lanc |-> LancSaida(f, valor_pg, dt_pg, cora_id)]
            /\ msg' = "none"
    /\ UNCHANGED <<contas, faturas, lancamentos, pagamentos, seq_fat, edit_row>>

\* the exception leaves the "with get_conn() as conn" block: rollback
Rollback(why) ==
    /\ tx' = TxIdle
    /\ msg' = why
    /\ UNCHANGED <<contas, faturas, lancamentos, pagamentos, seq_fat, seq_lanc, edit_row>>

\* INSERT INTO pagamentos_fatura: fatura_id is UNIQUE
fc_pagar_ins_pagamento ==
    /\ tx.pc = "lanc_inserido"
    /\ IF \E p \in pagamentos : p.fatura_id = tx.fatura_id
       THEN Rollback("excecao")
       ELSE /\ tx' = [tx EXCEPT !.pc = "pag_inserido"]
            /\ UNCHANGED <<contas, faturas, lancamentos, pagamentos, seq_fat, seq_lanc,
                           edit_row, msg>>

\* UPDATE faturas SET status='PAGA'
fc_pagar_upd_status ==
    /\ tx.pc = "pag_inserido"
    /\ tx' = [tx EXCEPT !.pc = "status_atualizado"]
    /\ UNCHANGED <<contas, faturas, lancamentos, pagamentos, seq_fat, seq_lanc,
                   edit_row, msg>>

\* conn.commit(): the three writes become visible together
fc_pagar_commit ==
    /\ tx.pc = "status_atualizado"
    /\ lancamentos' = lancamentos @@ (tx.lanc_id :> tx.lanc)
    /\ pagamentos' = pagamentos \cup
           {[fatura_id |-> tx.fatura_id, lancamento_saida_id |-> tx.lanc_id,
             dt_pagamento |-> tx.dt, valor |-> tx.valor]}
    /\ faturas' = [faturas EXCEPT ![tx.fatura_id].status = "PAGA"]
    /\ tx' = TxIdle
    /\ msg' = "ok"
    /\ UNCHANGED <<contas, seq_fat, seq_lanc, edit_row>>

\* a failure while the connection is open (the server or the process goes
\* away, a statement raises): nothing of the transaction is kept
fc_pagar_falha ==
    /\ tx.pc # "idle"
    /\ Rollback("excecao")

(***************************************************************************)
(* Spec: the statements' life: upsert, batch edit, delete, close, reopen,  *)
(* pay.                                                                    *)
(***************************************************************************)
Comps == 1..MaxComp
Dates == 1..MaxDate
DatesFecho == {MaxDate}     \* dt_fechamento / dt_vencimento typed in this specification
StatusFatura == {"ABERTA", "FECHADA", "PAGA"}
PayValores == {0, 5000}

Init ==
    /\ LedgerInit
    /\ parc = ParcIdle
    /\ money = MoneyIdle

Next ==
    \/ /\ \E c \in DOMAIN contas, comp \in Comps, di \in Dates, df \in Dates,
             dfe \in DatesFecho, dv \in DatesFecho :
             f_save(c, comp, di, df, dfe, dv)
       /\ UNCHANGED <<sess, parc, money, l_prev_df, df_pend_cache>>
    \/ /\ \E f \in DOMAIN faturas, di \in Dates, df \in Dates, dfe \in DatesFecho,
             dv \in DatesFecho, st \in StatusFatura :
             fat_save(f, di, df, dfe, dv, st)
       /\ UNCHANGED <<sess, parc, money, l_prev_df, df_pend_cache>>
    \/ /\ \E f \in DOMAIN faturas, confirm \in BOOLEAN : fat_del_btn(f, confirm)
       /\ UNCHANGED <<sess, parc, money, l_prev_df>>
    \/ /\ \E f \in DOMAIN faturas : fc_fechar(f)
       /\ UNCHANGED <<sess, parc, money, l_prev_df, df_pend_cache>>
    \/ /\ \E f \in DOMAIN faturas : fc_abrir(f)
       /\ UNCHANGED <<sess, parc, money, l_prev_df, df_pend_cache>>
    \/ /\ \E f \in DOMAIN faturas, v \in PayValores, d \in Dates : fc_pagar(f, v, d)
       /\ UNCHANGED <<sess, parc, money, l_prev_df, df_pend_cache>>
    \/ /\ fc_pagar_ins_pagamento
       /\ UNCHANGED <<sess, parc, money, l_prev_df, df_pend_cache>>
    \/ /\ fc_pagar_upd_status
       /\ UNCHANGED <<sess, parc, money, l_prev_df, df_pend_cache>>
    \/ /\ fc_pagar_commit
       /\ UNCHANGED <<sess, parc, money, l_prev_df, df_pend_cache>>
    \/ /\ fc_pagar_falha
       /\ UNCHANGED <<sess, parc, money, l_prev_df, df_pend_cache>>

Spec == Init /\ [][Next]_vars

(***************************************************************************)
(* SpecParcelas: one call of _calc_valores_parcelas, as l_previa makes it  *)
(* (src/app.py:796-806): v = parse_brl(valor_txt) > 0, parcelas in 1..60,  *)
(* modo_valor one of the two radio options.                                *)
(***************************************************************************)
ParcInit ==
    /\ LedgerInit
    /\ money = MoneyIdle
    /\ parc \in [pc : {"entrada"},
                 v_in : 1..MaxValorMil,
                 n : 1..MaxParcelas,
                 modo : {"Total", "Parcela"},
                 up1 : BOOLEAN,
                 up2 : BOOLEAN,
                 vals : {<< >>}]

CalcParcelas ==
    /\ parc.pc = "entrada"
    /\ parc' = [parc EXCEPT !.pc = "calculado",
                            !.vals = calc_valores_parcelas(parc.v_in, parc.n, parc.modo,
                                                           parc.up1, parc.up2)]
    /\ UNCHANGED <<ledgerVars, money>>

ParcNext == CalcParcelas

SpecParcelas == ParcInit /\ [][ParcNext]_vars


(***************************************************************************)
(* SpecMoney: one use of the codec.  Either a two-decimal value is         *)
(* formatted by br_money and the text parsed back (as edit_lanc_save does  *)
(* with e_val, lines 977 and 993), or a typed text is parsed.              *)
(***************************************************************************)
Amostras == {99999, 100000, 100001, 163000, 99999999, 100000000, 100000055, 123456789}
MoneyValues == ((0 - MaxDenso)..MaxDenso) \cup Amostras \cup {0 - a : a \in Amostras}

TextChars == {"0", "1", ",", ".", "-", " ", "R", "$"}
Exemplos == { <<"1", ".", "6", "3", "0", ",", "0", "0">>,
              <<"1", "6", "3", "0", ".", "0", "0">>,
              <<"1", "6", "3", "0", ",", "0", "0">>,
              <<"R", "$", " ", "1", ".", "6", "3", "0", ",", "0", "0">> }
Texts == (UNION {[1..k -> TextChars] : k \in 0..MaxTextLen}) \cup Exemplos

MoneyInit ==
    /\ LedgerInit
    /\ parc = ParcIdle
    /\ \/ money \in [pc : {"valor"}, origem : {"valor"}, x : MoneyValues,
                     txt : {<< >>}, lido : {Zero}]
       \/ money \in [pc : {"texto"}, origem : {"texto"}, x : {0},
                     txt : Texts, lido : {Zero}]

FormatMoney ==
    /\ money.pc = "valor"
    /\ money' = [money EXCEPT !.pc = "texto", !.txt = br_money(money.x)]
    /\ UNCHANGED <<ledgerVars, parc>>

ParseMoney ==
    /\ money.pc = "texto"
    /\ money' = [money EXCEPT !.pc = "lido", !.lido = parse_brl(money.txt)]
    /\ UNCHANGED <<ledgerVars, parc>>

MoneyNext == FormatMoney \/ ParseMoney

SpecMoney == MoneyInit /\ [][MoneyNext]_vars

(***************************************************************************)
(* SpecSaldo: the balances of an account over the entries the Contas and   *)
(* Lancamentos tabs write.                                                 *)
(***************************************************************************)
RECURSIVE SomaValor(_)
\* SUM(l.valor) over the rows S of lancamentos (0 for no row, as COALESCE gives)
SomaValor(S) ==
    IF S = {} THEN 0
    ELSE LET l == CHOOSE x \in S : TRUE
         IN  lancamentos[l].valor + SomaValor(S \ {l})

\* contas c WHERE c.nome = conta_nome  (nome is UNIQUE)
conta_de_nome(conta_nome) == {c \in DOMAIN contas : contas[c].nome = conta_nome}

\* ... JOIN lancamentos l ON l.conta_id = c.id
lancamentos_da_conta(c) == {l \in DOMAIN lancamentos : lancamentos[l].conta_id = c}

\* saldo_conta_real with the settlement date ignored
saldo_so_status(conta_nome) ==
    LET cs == conta_de_nome(conta_nome)
    IN  IF cs = {} THEN 0
        ELSE LET c == CHOOSE x \in cs : TRUE
                 ls == lancamentos_da_conta(c)
             IN  contas[c].saldo_inicial
                 + SomaValor({l \in ls : /\ lancamentos[l].tipo = "RECEITA"
                                         /\ ILike(Coalesce(lancamentos[l].status, Pendente),
                                                  <<"r", "e", "c", "e", "b", "i", "d", "o">>)})
                 - SomaValor({l \in ls : /\ lancamentos[l].tipo = "DESPESA"
                                         /\ ILike(Coalesce(lancamentos[l].status, Pendente),
                                                  <<"p", "a", "g", "o">>)})

\* saldo_conta_real(conta_nome), in cents
saldo_conta_real(conta_nome) ==
    LET cs == conta_de_nome(conta_nome)
    IN  IF cs = {} THEN 0
        ELSE LET c == CHOOSE x \in cs : TRUE
                 ls == lancamentos_da_conta(c)
             IN  contas[c].saldo_inicial
                 + SomaValor({l \in ls : /\ lancamentos[l].tipo = "RECEITA"
                                         /\ \/ ILike(Coalesce(lancamentos[l].status, Pendente),
                                                     <<"r", "e", "c", "e", "b", "i", "d", "o">>)
                                            \/ lancamentos[l].dt_liquidacao # 0})
                 - SomaValor({l \in ls : /\ lancamentos[l].tipo = "DESPESA"
                                         /\ \/ ILike(Coalesce(lancamentos[l].status, Pendente),
                                                     <<"p", "a", "g", "o">>)
                                            \/ lancamentos[l].dt_liquidacao # 0})

\* the pending entries of one kind of the account of that name
pendentes(conta_nome, tipo) ==
    {l \in DOMAIN lancamentos :
        /\ lancamentos[l].conta_id \in conta_de_nome(conta_nome)
        /\ lancamentos[l].tipo = tipo
        /\ ILike(Coalesce(lancamentos[l].status, Pendente),
                 <<"p", "e", "n", "d", "e", "n", "t", "e">>)}

\* previsao_receber_conta(conta_nome), in cents
previsao_receber_conta(conta_nome) == SomaValor(pendentes(conta_nome, "RECEITA"))

\* previsao_pagar_conta(conta_nome), in cents
previsao_pagar_conta(conta_nome) == SomaValor(pendentes(conta_nome, "DESPESA"))

\* "Salvar alteracoes" (contas_save): every row of the editor is written back;
\* c is the row the user changed
contas_save(c, saldo, ativo) ==
    /\ tx.pc = "idle"
    /\ c \in DOMAIN contas
    /\ contas' = [contas EXCEPT ![c].saldo_inicial = saldo, ![c].ativo = ativo]
    /\ msg' = "ok"
    /\ UNCHANGED <<faturas, lancamentos, pagamentos, seq_fat, seq_lanc, tx, edit_row>>

\* the row i of "Gerar receitas"
ReceitaPendente(desc_base, i, v, dt_prev, conta_sel) ==
    [tipo |-> "RECEITA",
     descricao |-> <<desc_base, "#", i>>,
     valor |-> v,
     dt_competencia |-> dt_prev,
     dt_liquidacao |-> 0,
     conta_id |-> conta_sel,
     fatura_id |-> 0,
     forma_pagamento |-> NULL,
     status |-> Pendente,
     prestacao |-> NULL]

\* "Gerar receitas" (lot_rec_go): n pending RECEITA rows in one commit
lot_rec_go(n, v, dt_prev, conta_sel) ==
    /\ tx.pc = "idle"
    /\ conta_sel \in {c \in DOMAIN contas : contas[c].ativo /\ contas[c].tipo = "CONTA"}
    /\ IF v <= 0
       THEN /\ msg' = "erro"
            /\ UNCHANGED <<lancamentos, seq_lanc>>
       ELSE /\ seq_lanc + n <= MaxSeqLanc
            /\ lancamentos' =
                   [l \in DOMAIN lancamentos \cup ((seq_lanc + 1)..(seq_lanc + n)) |->
                       IF l \in DOMAIN lancamentos THEN lancamentos[l]
                       ELSE ReceitaPendente("Boleto", l - seq_lanc, v, dt_prev, conta_sel)]
            /\ seq_lanc' = seq_lanc + n
            /\ msg' = "ok"
    /\ UNCHANGED <<contas, faturas, pagamentos, seq_fat, tx, edit_row>>

\* "Carregar" (edit_lanc_load): the row read is kept in the session; the form
\* is shown while the kept row has the id typed
edit_lanc_load(edit_id) ==
    /\ tx.pc = "idle"
    /\ edit_row' = IF edit_id \in DOMAIN lancamentos THEN edit_id ELSE 0
    /\ UNCHANGED <<contas, faturas, lancamentos, pagamentos, seq_fat, seq_lanc, tx, msg>>

\* "Salvar edicao" (edit_lanc_save); description, booking date, statement and
\* payment form are left as loaded
edit_lanc_save(e_tipo, e_conta, v, e_dtliq, e_status) ==
    /\ tx.pc = "idle"
    /\ edit_row # 0
    /\ e_conta \in DOMAIN contas
    /\ IF v <= 0
       THEN /\ msg' = "erro"
            /\ UNCHANGED <<lancamentos, edit_row>>
       ELSE /\ lancamentos' =
                   IF edit_row \in DOMAIN lancamentos
                   THEN [lancamentos EXCEPT
                            ![edit_row].tipo = e_tipo,
                            ![edit_row].valor = v,
                            ![edit_row].dt_liquidacao = e_dtliq,
                            ![edit_row].conta_id = e_conta,
                            ![edit_row].status =
                                IF Strip(e_status) = << >> THEN NULL ELSE Strip(e_status)]
                   ELSE lancamentos
            /\ edit_row' = 0
            /\ msg' = "ok"
    /\ UNCHANGED <<contas, faturas, pagamentos, seq_fat, seq_lanc, tx>>

\* "Excluir" (del_lanc_btn)
del_lanc_btn(del_id, confirm) ==
    /\ tx.pc = "idle"
    /\ IF ~confirm
       THEN /\ msg' = "erro"
            /\ UNCHANGED lancamentos
       ELSE IF \E p \in pagamentos : p.lancamento_saida_id = del_id
       THEN \* pagamentos_fatura.lancamento_saida_id REFERENCES lancamentos(id)
            /\ msg' = "excecao"
            /\ UNCHANGED lancamentos
       ELSE /\ lancamentos' = IF del_id \in DOMAIN lancamentos
                              THEN DropKey(lancamentos, del_id) ELSE lancamentos
            /\ msg' = "ok"
    /\ UNCHANGED <<contas, faturas, pagamentos, seq_fat, seq_lanc, tx, edit_row>>

\* "Aplicar baixa" (batch_apply): ids are the numbers typed
batch_apply(ids, dt_baixa, novo_status) ==
    /\ tx.pc = "idle"
    /\ IF ids = {}
       THEN /\ msg' = "erro"
            /\ UNCHANGED lancamentos
       ELSE /\ lancamentos' =
                   [l \in DOMAIN lancamentos |->
                       IF l \in ids
                       THEN [lancamentos[l] EXCEPT !.dt_liquidacao = dt_baixa,
                                                   !.status = novo_status]
                       ELSE lancamentos[l]]
            /\ msg' = "ok"
    /\ UNCHANGED <<contas, faturas, pagamentos, seq_fat, seq_lanc, tx, edit_row>>

MaxLote == 2
SaldosDigitados == {0, 100000}
ValoresDigitados == {0, 5000, 20000}
ContasEditor == {1}          \* the row changed in the accounts editor
ContasLanc == {1, 2}         \* the accounts chosen in the entry form
DatasBaixa == {0, 1}
NovoStatus == {Recebido, Pago, Cancelado, Pendente}
StatusDigitados == {<< >>, Pendente, <<"R", "e", "c", "e", "b", "i", "d", "o", " ">>}

SaldoNext ==
    \/ /\ \E c \in ContasEditor, saldo \in SaldosDigitados : contas_save(c, saldo, TRUE)
       /\ UNCHANGED <<sess, parc, money, l_prev_df, df_pend_cache>>
    \/ /\ \E n \in 1..MaxLote, v \in ValoresDigitados, c \in DOMAIN contas :
             lot_rec_go(n, v, 1, c)
       /\ UNCHANGED <<sess, parc, money, l_prev_df, df_pend_cache>>
    \/ /\ \E id \in 1..MaxSeqLanc : edit_lanc_load(id)
       /\ UNCHANGED <<sess, parc, money, l_prev_df, df_pend_cache>>
    \/ /\ \E t \in {"RECEITA", "DESPESA"}, c \in ContasLanc, v \in ValoresDigitados,
             d \in DatasBaixa, st \in StatusDigitados :
             edit_lanc_save(t, c, v, d, st)
       /\ UNCHANGED <<sess, parc, money, l_prev_df, df_pend_cache>>
    \/ /\ \E id \in 1..MaxSeqLanc, confirm \in BOOLEAN : del_lanc_btn(id, confirm)
       /\ UNCHANGED <<sess, parc, money, l_prev_df, df_pend_cache>>
    \/ /\ \E ids \in SUBSET (1..MaxSeqLanc), d \in DatasBaixa \ {0}, st \in NovoStatus :
             batch_apply(ids, d, st)
       /\ UNCHANGED <<sess, parc, money, l_prev_df, df_pend_cache>>

SpecSaldo == Init /\ [][SaldoNext]_vars

(***************************************************************************)
(* SpecLanc: recording entries in the Lancamentos tab (preview, then save) *)
(* against the statements of a card.                                       *)
(*                                                                         *)
(* A date is the number 31 * m + d of day d of the month m months after    *)
(* January of AnoBase, which orders dates as the calendar does; the dates  *)
(* 1..MaxDate are the first days of that January.                          *)
(***************************************************************************)
AnoBase == 2025
Hoje == 1           \* date.today(): 1 January of AnoBase
MonthOf(dt) == (dt - 1) \div 31
DayOf(dt) == ((dt - 1) % 31) + 1
DateOf(m, d) == 31 * m + d

\* the days of the month m months after January of AnoBase
DaysIn(m) ==
    LET y == AnoBase + (m \div 12)
        mo == (m % 12) + 1
        leap == (y % 4 = 0 /\ y % 100 # 0) \/ y % 400 = 0
    IN  IF mo = 2 THEN (IF leap THEN 29 ELSE 28)
        ELSE IF mo \in {4, 6, 9, 11} THEN 30
        ELSE 31

\* dt + relativedelta(months=i) with the day never clamped
AddMonthsSemLimite(dt, i) == DateOf(MonthOf(dt) + i, DayOf(dt))

\* dt + relativedelta(months=i): the day is kept, or clamped to the month's last
AddMonths(dt, i) ==
    LET m == MonthOf(dt) + i
        d == IF DayOf(dt) > DaysIn(m) THEN DaysIn(m) ELSE DayOf(dt)
    IN  DateOf(m, d)

\* suggest_fatura_for_date with ORDER BY dt_fim ascending
suggest_fim_asc(cartao_id, dt) ==
    LET cand == {f \in DOMAIN faturas :
                    /\ faturas[f].conta_id = cartao_id
                    /\ faturas[f].dt_inicio <= dt /\ dt <= faturas[f].dt_fim}
    IN  IF cand = {} THEN {0}
        ELSE {f \in cand : \A g \in cand : faturas[g].dt_fim >= faturas[f].dt_fim}

\* suggest_fatura_for_date(cartao_id, dt): the ids the query can return, {0}
\* for None.  ORDER BY dt_fim DESC LIMIT 1 leaves the choice among rows of
\* equal dt_fim to the store.
suggest_fatura_for_date(cartao_id, dt) ==
    LET cand == {f \in DOMAIN faturas :
                    /\ faturas[f].conta_id = cartao_id
                    /\ faturas[f].dt_inicio <= dt /\ dt <= faturas[f].dt_fim}
    IN  IF cand = {} THEN {0}
        ELSE {f \in cand : \A g \in cand : faturas[g].dt_fim <= faturas[f].dt_fim}

\* a row of the preview whose dt_liquidacao follows the status typed
LinhaLiqPorStatus(tipo_l, desc, valor, dt_i, dt_liq, conta_id, fat_i, forma, status, i, parcelas) ==
    [tipo |-> tipo_l,
     descricao |-> Strip(desc),
     valor |-> valor,
     dt_competencia |-> dt_i,
     dt_liquidacao |-> IF status = Pago THEN Hoje ELSE 0,
     conta_id |-> conta_id,
     fatura_id |-> fat_i,
     forma_pagamento |-> IF forma = << >> THEN NULL ELSE forma,
     status |-> IF status = << >> THEN NULL ELSE status,
     prestacao |-> IF parcelas > 1
                   THEN NatDigits(i) \o << "/" >> \o NatDigits(parcelas)
                   ELSE NULL]

\* the row i (from 1) of the preview
LinhaPrevia(tipo_l, desc, valor, dt_i, dt_liq, conta_id, fat_i, forma, status, i, parcelas) ==
    [tipo |-> tipo_l,
     descricao |-> Strip(desc),
     valor |-> valor,
     dt_competencia |-> dt_i,
     dt_liquidacao |-> dt_liq,
     conta_id |-> conta_id,
     fatura_id |-> fat_i,
     forma_pagamento |-> IF forma = << >> THEN NULL ELSE forma,
     status |-> IF status = << >> THEN NULL ELSE status,
     prestacao |-> IF parcelas > 1
                   THEN NatDigits(i) \o << "/" >> \o NatDigits(parcelas)
                   ELSE NULL]

\* "Gerar previa" (l_previa).  fatura_sel is the statement picked in the
\* selectbox "Vincular a fatura", 0 when the card has no statement; v is the
\* value parse_brl read, in thousandths; up1 and up2 settle the ties of round.
l_previa(tipo_l, conta_id, dt_comp, parcelas, desc, v, modo_valor, status, dt_liq, fatura_sel, up1, up2) ==
    /\ tx.pc = "idle"
    /\ conta_id \in DOMAIN contas /\ contas[conta_id].ativo
    /\ LET cartao == contas[conta_id].tipo = "CARTAO" /\ tipo_l = "DESPESA"
           fatura_id == IF cartao /\ list_faturas(conta_id) # {} THEN fatura_sel ELSE 0
           erros == \/ Strip(desc) = << >>
                    \/ v <= 0
                    \/ (tipo_l = "RECEITA" /\ parcelas # 1)
                    \/ (cartao /\ fatura_id = 0)
       IN  /\ IF cartao /\ list_faturas(conta_id) # {}
              THEN fatura_sel \in list_faturas(conta_id)
              ELSE fatura_sel = 0
           /\ IF erros
              THEN /\ msg' = "erro"
                   /\ UNCHANGED l_prev_df
              ELSE /\ msg' = "none"
                   /\ \E fats \in [1..parcelas -> (DOMAIN faturas) \cup {0}] :
                         /\ \A i \in 1..parcelas :
                               fats[i] \in IF cartao
                                           THEN suggest_fatura_for_date(
                                                    conta_id, AddMonths(dt_comp, i - 1))
                                           ELSE {0}
                         /\ l_prev_df' =
                               [i \in 1..parcelas |->
                                   LinhaPrevia(tipo_l, desc,
                                       calc_valores_parcelas(v, parcelas, modo_valor,
                                                             up1, up2)[i],
                                       AddMonths(dt_comp, i - 1), dt_liq, conta_id,
                                       fats[i], << >>, status, i, parcelas)]
    /\ UNCHANGED <<contas, faturas, lancamentos, pagamentos, seq_fat, seq_lanc, tx,
                   edit_row>>

\* the cents a NUMERIC(14,2) column keeps of the float parse_brl returned
NumericCents(dec) ==
    LET d1 == IF Len(dec.fd) >= 1 THEN DigitVal(dec.fd[1]) ELSE 0
        d2 == IF Len(dec.fd) >= 2 THEN DigitVal(dec.fd[2]) ELSE 0
        d3 == IF Len(dec.fd) >= 3 THEN DigitVal(dec.fd[3]) ELSE 0
        a  == dec.ip * 100 + d1 * 10 + d2 + (IF d3 >= 5 THEN 1 ELSE 0)
    IN  IF dec.neg THEN 0 - a ELSE a

\* the rows the editor of the preview shows: valor as the text br_money gives
VistaPrevia == [i \in DOMAIN l_prev_df |->
                   [l_prev_df[i] EXCEPT !.valor = br_money(l_prev_df[i].valor)]]

\* the editor after the user changed the cell campo of row k to novo
\* (campo "nenhum": nothing was changed)
Editado(k, campo, novo) ==
    LET view == VistaPrevia
    IN  [i \in DOMAIN l_prev_df |->
            IF i # k THEN view[i]
            ELSE IF campo = "descricao" THEN [view[i] EXCEPT !.descricao = novo]
            ELSE IF campo = "valor" THEN [view[i] EXCEPT !.valor = novo]
            ELSE IF campo = "dt_competencia" THEN [view[i] EXCEPT !.dt_competencia = novo]
            ELSE IF campo = "fatura_id" THEN [view[i] EXCEPT !.fatura_id = novo]
            ELSE view[i]]

\* the tuple l_save_multi prepares of the row r of the editor
LinhaPreparada(r) == [r EXCEPT !.valor = NumericCents(parse_brl(r.valor))]

\* preparing the row i of the editor raises: the date cell is empty, or the
\* statement cell is empty in a column that holds numbers and reads as NaN
PreparoPodeFalhar(edited, i) ==
    \/ edited[i].dt_competencia = 0
    \/ /\ edited[i].fatura_id = 0
       /\ \E j \in DOMAIN edited : edited[j].fatura_id # 0
PreparoFalhaSempre(edited, i) == edited[i].dt_competencia = 0

\* the store refuses the row r: CHECK (valor >= 0), fatura_id REFERENCES faturas
LinhaRecusada(r) ==
    \/ r.valor < 0
    \/ (r.fatura_id # 0 /\ r.fatura_id \notin DOMAIN faturas)

\* l_save_multi saving the rows that could be prepared and dropping the others
l_save_parcial(k, campo, novo, nan_raises) ==
    /\ tx.pc = "idle"
    /\ l_prev_df # << >>
    /\ campo = "nenhum" <=> k = 0
    /\ k \in {0} \cup DOMAIN l_prev_df
    /\ \E edited \in {Editado(k, campo, novo)} :
       LET falhas == {i \in DOMAIN edited :
                         \/ PreparoFalhaSempre(edited, i)
                         \/ (nan_raises /\ PreparoPodeFalhar(edited, i))}
           boas == SelectSeq([i \in DOMAIN edited |-> <<i, LinhaPreparada(edited[i])>>],
                             LAMBDA x : x[1] \notin falhas /\ ~LinhaRecusada(x[2]))
           n == Len(boas)
       IN  /\ seq_lanc + n <= MaxSeqLanc
           /\ lancamentos' =
                  [l \in DOMAIN lancamentos \cup ((seq_lanc + 1)..(seq_lanc + n)) |->
                      IF l \in DOMAIN lancamentos THEN lancamentos[l]
                      ELSE boas[l - seq_lanc][2]]
           /\ seq_lanc' = seq_lanc + n
           /\ l_prev_df' = IF falhas = {} THEN << >> ELSE l_prev_df
           /\ msg' = IF falhas = {} THEN "ok" ELSE "erro"
    /\ UNCHANGED <<contas, faturas, pagamentos, seq_fat, tx, edit_row>>

\* "Salvar lancamento(s)" (l_save_multi) on the editor of the preview
l_save_multi(k, campo, novo, nan_raises) ==
    /\ tx.pc = "idle"
    /\ l_prev_df # << >>
    /\ campo = "nenhum" <=> k = 0
    /\ k \in {0} \cup DOMAIN l_prev_df
    /\ \E edited \in {Editado(k, campo, novo)} :
       \E rows \in {[i \in DOMAIN edited |-> LinhaPreparada(edited[i])]} :
       LET erros == {i \in DOMAIN edited :
                        \/ PreparoFalhaSempre(edited, i)
                        \/ (nan_raises /\ PreparoPodeFalhar(edited, i))}
           ruins == {i \in DOMAIN rows : LinhaRecusada(rows[i])}
           n == Len(rows)
       IN  IF erros # {}
           THEN /\ msg' = "erro"
                /\ UNCHANGED <<lancamentos, seq_lanc, l_prev_df>>
           ELSE IF ruins # {}
           THEN \* exec_many raises at the first refused row: nothing is committed,
                \* the ids drawn from the sequence are lost
                /\ LET first == CHOOSE i \in ruins : \A j \in ruins : i <= j
                   IN  /\ seq_lanc + first <= MaxSeqLanc
                       /\ seq_lanc' = seq_lanc + first
                /\ msg' = "excecao"
                /\ UNCHANGED <<lancamentos, l_prev_df>>
           ELSE /\ seq_lanc + n <= MaxSeqLanc
                /\ lancamentos' =
                       [l \in DOMAIN lancamentos \cup ((seq_lanc + 1)..(seq_lanc + n)) |->
                           IF l \in DOMAIN lancamentos THEN lancamentos[l]
                           ELSE rows[l - seq_lanc]]
                /\ seq_lanc' = seq_lanc + n
                /\ l_prev_df' = << >>
                /\ msg' = "ok"
    /\ UNCHANGED <<contas, faturas, pagamentos, seq_fat, tx, edit_row>>

\* "Limpar previa" (l_clear_prev)
l_clear_prev ==
    /\ tx.pc = "idle"
    /\ l_prev_df # << >>
    /\ l_prev_df' = << >>
    /\ msg' = "none"
    /\ UNCHANGED <<contas, faturas, lancamentos, pagamentos, seq_fat, seq_lanc, tx,
                   edit_row>>

MaxParcLanc == 2
CartoesLanc == {2}                      \* the card whose statement is kept
ContasPrevia == {<<"DESPESA", 2>>, <<"RECEITA", 1>>}   \* "Tipo" and "Conta" picked
DatasCompra == {1}                      \* "Data (competencia)" typed: 1 January
DescDigitadas == {<< " " >>, << "T", "V" >>}
ValoresMil == {0, 10}                   \* 0,00 and 0,01 read by parse_brl
\* the forms filled in: every kind, account, count and mode with a good
\* description and value, and a purchase with each description and value
EntradasPrevia ==
    [tc : ContasPrevia, n : 1..MaxParcLanc, desc : {<< "T", "V" >>}, v : {10},
     modo : {"Total", "Parcela"}, up : BOOLEAN]
    \cup [tc : {<<"DESPESA", 2>>}, n : {1}, desc : DescDigitadas, v : ValoresMil,
          modo : {"Total"}, up : {TRUE}]
CelulasEditadas ==
    {<<"nenhum", 0>>, <<"descricao", << " " >> >>, <<"valor", << "-", "5" >> >>,
     <<"dt_competencia", 0>>} \cup {<<"fatura_id", f>> : f \in 0..MaxSeqFat}

LancNext ==
    \/ /\ \E c \in CartoesLanc, comp \in Comps, di \in Dates, df \in Dates :
             f_save(c, comp, di, df, df, df)
       /\ UNCHANGED <<sess, parc, money, l_prev_df, df_pend_cache>>
    \/ /\ \E f \in DOMAIN faturas : fc_fechar(f)
       /\ UNCHANGED <<sess, parc, money, l_prev_df, df_pend_cache>>
    \/ /\ \E e \in EntradasPrevia, d \in DatasCompra, fs \in 0..MaxSeqFat :
             l_previa(e.tc[1], e.tc[2], d, e.n, e.desc, e.v, e.modo, Pendente, 0, fs,
                      e.up, e.up)
       /\ UNCHANGED <<sess, parc, money, df_pend_cache>>
    \/ /\ \E k \in 0..MaxParcLanc, e \in CelulasEditadas, nan \in BOOLEAN :
             l_save_multi(k, e[1], e[2], nan)
       /\ UNCHANGED <<sess, parc, money, df_pend_cache>>
    \/ /\ l_clear_prev
       /\ UNCHANGED <<sess, parc, money, df_pend_cache>>

SpecLanc == Init /\ [][LancNext]_vars

(***************************************************************************)
(* SpecFat: several statements on the cards, with adjacent and overlapping *)
(* periods, and purchases whose installments look their statement up.      *)
(***************************************************************************)
MaxCompFat == 2
CompsFat == 1..MaxCompFat
CartoesFat == {2, 3}

FatNext ==
    \/ /\ \E c \in CartoesFat, comp \in CompsFat, di \in Dates, df \in Dates :
             f_save(c, comp, di, df, df, df)
       /\ UNCHANGED <<sess, parc, money, l_prev_df, df_pend_cache>>
    \/ /\ \E c \in CartoesFat, d \in Dates, n \in 1..MaxParcLanc, fs \in 0..MaxSeqFat :
             l_previa("DESPESA", c, d, n, << "T", "V" >>, 10, "Parcela", Pendente, 0,
                      fs, TRUE, TRUE)
       /\ UNCHANGED <<sess, parc, money, df_pend_cache>>
    \/ /\ l_clear_prev
       /\ UNCHANGED <<sess, parc, money, df_pend_cache>>

SpecFat == Init /\ [][FatNext]_vars

(***************************************************************************)
(* SpecPrevia: "Gerar previa" on an account that is no card, with purchase *)
(* dates at the end of a month, up to three installments, and the status   *)
(* and settlement date typed in the form.                                  *)
(***************************************************************************)
MaxParcPrevia == 3
DatasPrevia == {1, 30, 31, DateOf(11, 31)}   \* 1, 30, 31 January and 31 December
StatusPrevia == {Pendente, Pago}
DatasLiq == {0, Hoje}                        \* "Data liquidacao (opcional)"
EntradasDatas ==
    [tipo : {"DESPESA"}, d : DatasPrevia, n : 1..MaxParcPrevia, st : StatusPrevia,
     liq : DatasLiq]
    \cup [tipo : {"RECEITA"}, d : DatasPrevia, n : 1..2, st : StatusPrevia,
          liq : DatasLiq]

PreviaNext ==
    \/ /\ \E e \in EntradasDatas :
             l_previa(e.tipo, 1, e.d, e.n, << "T", "V" >>, 1000, "Total", e.st, e.liq,
                      0, TRUE, TRUE)
       /\ UNCHANGED <<sess, parc, money, df_pend_cache>>
    \/ /\ l_clear_prev
       /\ UNCHANGED <<sess, parc, money, df_pend_cache>>

SpecPrevia == Init /\ [][PreviaNext]_vars

(***************************************************************************)
(* SpecContas: the Contas tab: "Adicionar" and the accounts editor.        *)
(***************************************************************************)
MaxContas == 5

\* "Adicionar" (c_add).  nome is the name typed with its blanks stripped ("" for
\* nothing but blanks); the id is the next of the sequence, past the ids that
\* earlier conflicts used up.
c_add(nome, tipo, saldo_ini, id) ==
    /\ tx.pc = "idle"
    /\ IF nome = ""
       THEN /\ msg' = "erro"
            /\ UNCHANGED contas
       ELSE /\ id \in 1..MaxContas
            /\ \A c \in DOMAIN contas : c < id
            /\ LET v == IF tipo = "CONTA" THEN NumericCents(parse_brl(saldo_ini)) ELSE 0
               IN  contas' =
                      IF \E c \in DOMAIN contas : contas[c].nome = nome
                      THEN contas          \* ON CONFLICT (nome) DO NOTHING
                      ELSE contas @@ (id :> [nome |-> nome, tipo |-> tipo,
                                             ativo |-> TRUE, saldo_inicial |-> v])
            /\ msg' = "ok"
    /\ UNCHANGED <<faturas, lancamentos, pagamentos, seq_fat, seq_lanc, tx, edit_row>>

NomesDigitados == {"", "Cora", "Cartao Novo"}
SaldosIniciais == {<<"0", ",", "0", "0">>, <<"1", "0", ",", "0", "0">>}

ContasNext ==
    \/ /\ \E nome \in NomesDigitados, tipo \in {"CONTA", "CARTAO"},
             saldo_ini \in SaldosIniciais, id \in 1..MaxContas :
             c_add(nome, tipo, saldo_ini, id)
       /\ UNCHANGED <<sess, parc, money, l_prev_df, df_pend_cache>>
    \/ /\ \E c \in DOMAIN contas, saldo \in SaldosDigitados, ativo \in BOOLEAN :
             contas_save(c, saldo, ativo)
       /\ UNCHANGED <<sess, parc, money, l_prev_df, df_pend_cache>>

SpecContas == Init /\ [][ContasNext]_vars

(***************************************************************************)
(* SpecBol: the Boletos tab.  The listing of pending receivables is read   *)
(* through cached_df, whose entry lives 30 seconds or until clear_cache;   *)
(* the listing is shown with "Mostrar tudo" ticked and no text filter.     *)
(***************************************************************************)
MaxSeqBol == 3      \* the last id of lancamentos a slip can take
Agrupada == <<"A", "g", "r", "u", "p", "a", "d", "a">>
Boleto == <<"B", "o", "l", "e", "t", "o">>

\* f"Boleto:{boleto_id}"
BoletoTag(boleto_id) == Boleto \o << ":" >> \o NatDigits(boleto_id)

\* SELECT id, valor ... WHERE tipo='RECEITA' AND COALESCE(status,'Pendente')=
\* 'Pendente': id -> valor of the rows found
df_pend_query ==
    [l \in {x \in DOMAIN lancamentos :
               /\ lancamentos[x].tipo = "RECEITA"
               /\ Coalesce(lancamentos[x].status, Pendente) = Pendente} |->
        lancamentos[l].valor]

\* df_pend = cached_df(q, params): the entry if there is one, else the query
df_pend == IF df_pend_cache.valid THEN df_pend_cache.df ELSE df_pend_query

RECURSIVE SomaDf(_, _)
\* df.loc[selected_mask, "valor"].sum(): cents add exactly at these sizes, and
\* NUMERIC(14,2) keeps the cents of float(total)
SomaDf(df, S) ==
    IF S = {} THEN 0
    ELSE LET l == CHOOSE x \in S : TRUE
         IN  df[l] + SomaDf(df, S \ {l})

\* the row "Gerar boleto com selecionados" inserts
LancBoleto(desc, total, venc, conta_id) ==
    [tipo |-> "RECEITA",
     descricao |-> Strip(desc),
     valor |-> total,
     dt_competencia |-> venc,
     dt_liquidacao |-> 0,
     conta_id |-> conta_id,
     fatura_id |-> 0,
     forma_pagamento |-> Boleto,
     status |-> Pendente,
     prestacao |-> NULL]

\* a run of the script that reaches the Boletos tab ("Aplicar filtros", or the
\* rerun after any click): cached_df keeps what it returns
bol_rerun ==
    /\ tx.pc = "idle"
    /\ df_pend_cache' = [valid |-> TRUE, df |-> df_pend]
    /\ UNCHANGED <<contas, faturas, lancamentos, pagamentos, seq_fat, seq_lanc, tx,
                   edit_row, msg>>

\* the entry of cached_df reaches its ttl of 30 seconds
cache_ttl ==
    /\ df_pend_cache.valid
    /\ df_pend_cache' = NoCache
    /\ UNCHANGED <<contas, faturas, lancamentos, pagamentos, seq_fat, seq_lanc, tx,
                   edit_row, msg>>

\* "Gerar boleto com selecionados" (bol_gerar); sel are the ids of the rows
\* ticked in the listing
bol_gerar(sel, conta_id, venc, desc) ==
    /\ tx.pc = "idle"
    /\ conta_id \in {c \in DOMAIN contas : contas[c].ativo /\ contas[c].tipo = "CONTA"}
    /\ DOMAIN df_pend # {}
    /\ sel \subseteq DOMAIN df_pend
    /\ LET total == SomaDf(df_pend, sel)
           boleto_id == seq_lanc + 1
       IN  IF sel = {} \/ total <= 0
           THEN /\ msg' = "erro"
                /\ df_pend_cache' = [valid |-> TRUE, df |-> df_pend]
                /\ UNCHANGED <<lancamentos, seq_lanc>>
           ELSE /\ seq_lanc < MaxSeqBol
                /\ seq_lanc' = boleto_id
                /\ lancamentos' =
                       [l \in DOMAIN lancamentos \cup {boleto_id} |->
                           IF l = boleto_id THEN LancBoleto(desc, total, venc, conta_id)
                           ELSE IF l \in sel
                           THEN [lancamentos[l] EXCEPT
                                    !.status = Agrupada,
                                    !.forma_pagamento = BoletoTag(boleto_id)]
                           ELSE lancamentos[l]]
                /\ msg' = "ok"
                /\ df_pend_cache' = NoCache
    /\ UNCHANGED <<contas, faturas, pagamentos, seq_fat, tx, edit_row>>

\* the two statements of "Desagrupar" on the table L: UPDATE ... SET
\* status='Pendente', forma_pagamento=NULL WHERE forma_pagamento='Boleto:<bid>',
\* then DELETE ... WHERE id=bid AND tipo='RECEITA' AND forma_pagamento='Boleto'
bol_des_sql(L, bid) ==
    LET upd == [l \in DOMAIN L |->
                   IF L[l].forma_pagamento = BoletoTag(bid)
                   THEN [L[l] EXCEPT !.status = Pendente, !.forma_pagamento = NULL]
                   ELSE L[l]]
        del == {l \in DOMAIN upd :
                   l = bid /\ upd[l].tipo = "RECEITA" /\ upd[l].forma_pagamento = Boleto}
    IN  [l \in DOMAIN upd \ del |-> upd[l]]

\* "Desagrupar" (bol_des_btn); bid is the number typed in "ID do boleto"
bol_des_btn(bid, confirm) ==
    /\ tx.pc = "idle"
    /\ IF ~confirm
       THEN /\ msg' = "erro"
            /\ UNCHANGED <<lancamentos, df_pend_cache>>
       ELSE /\ lancamentos' = bol_des_sql(lancamentos, bid)
            /\ df_pend_cache' = NoCache
            /\ msg' = "ok"
    /\ UNCHANGED <<contas, faturas, pagamentos, seq_fat, seq_lanc, tx, edit_row>>

ValoresBol == {3000, 7000}
StatusBol == {Pendente, << >>}      \* "Status" typed in the edit form
DescBoleto == <<"B", "o", "l", "e", "t", "o", " ", "0", "1">>

BolNext ==
    \/ /\ \E n \in 1..MaxLote, v \in ValoresBol : lot_rec_go(n, v, 1, 1)
       /\ UNCHANGED <<sess, parc, money, l_prev_df, df_pend_cache>>
    \/ /\ \E id \in 1..MaxSeqLanc : edit_lanc_load(id)
       /\ UNCHANGED <<sess, parc, money, l_prev_df, df_pend_cache>>
    \/ /\ \E v \in ValoresBol, st \in StatusBol : edit_lanc_save("RECEITA", 1, v, 0, st)
       /\ UNCHANGED <<sess, parc, money, l_prev_df, df_pend_cache>>
    \/ /\ bol_rerun
       /\ UNCHANGED <<sess, parc, money, l_prev_df>>
    \/ /\ cache_ttl
       /\ UNCHANGED <<sess, parc, money, l_prev_df>>
    \/ /\ \E sel \in SUBSET (1..MaxSeqBol) : bol_gerar(sel, 1, 2, DescBoleto)
       /\ UNCHANGED <<sess, parc, money, l_prev_df>>
    \/ /\ \E bid \in 1..MaxSeqBol, confirm \in BOOLEAN : bol_des_btn(bid, confirm)
       /\ UNCHANGED <<sess, parc, money, l_prev_df>>

SpecBol == Init /\ [][BolNext]_vars

(***************************************************************************)
(* SpecBolTx: "Gerar boleto" and "Desagrupar" statement by statement.      *)
(* Each statement runs on a connection of its own (fetch_one, exec_sql)    *)
(* and is committed when it returns; tx.pc tells which statement of the    *)
(* handler comes next, and the next connection may fail.                   *)
(***************************************************************************)
\* bol_gerar up to the return of fetch_one: the slip is inserted and committed
bol_gerar_ins(sel, conta_id, venc, desc) ==
    /\ tx.pc = "idle"
    /\ conta_id \in {c \in DOMAIN contas : contas[c].ativo /\ contas[c].tipo = "CONTA"}
    /\ DOMAIN df_pend # {}
    /\ sel \subseteq DOMAIN df_pend
    /\ df_pend_cache' = [valid |-> TRUE, df |-> df_pend]
    /\ LET total == SomaDf(df_pend, sel)
           boleto_id == seq_lanc + 1
       IN  IF sel = {} \/ total <= 0
           THEN /\ msg' = "erro"
                /\ UNCHANGED <<lancamentos, seq_lanc, tx>>
           ELSE /\ seq_lanc < MaxSeqBol
                /\ seq_lanc' = boleto_id
                /\ lancamentos' = lancamentos @@
                       (boleto_id :> LancBoleto(desc, total, venc, conta_id))
                /\ tx' = [pc |-> "bol_upd", ids |-> sel, boleto_id |-> boleto_id]
                /\ UNCHANGED msg
    /\ UNCHANGED <<contas, faturas, pagamentos, seq_fat, edit_row>>

\* the exec_sql of bol_gerar: the entries ticked are tagged, then the toast,
\* clear_cache and the rerun
bol_gerar_upd ==
    /\ tx.pc = "bol_upd"
    /\ lancamentos' = [l \in DOMAIN lancamentos |->
                          IF l \in tx.ids
                          THEN [lancamentos[l] EXCEPT
                                   !.status = Agrupada,
                                   !.forma_pagamento = BoletoTag(tx.boleto_id)]
                          ELSE lancamentos[l]]
    /\ tx' = TxIdle
    /\ msg' = "ok"
    /\ df_pend_cache' = NoCache
    /\ UNCHANGED <<contas, faturas, pagamentos, seq_fat, seq_lanc, edit_row>>

\* the exec_sql of bol_gerar raises (psycopg2.connect or the statement fails):
\* the handler ends there
bol_gerar_falha ==
    /\ tx.pc = "bol_upd"
    /\ tx' = TxIdle
    /\ msg' = "excecao"
    /\ UNCHANGED <<contas, faturas, lancamentos, pagamentos, seq_fat, seq_lanc,
                   edit_row, df_pend_cache>>

\* bol_des_btn up to the return of its first exec_sql: the entries tagged
\* 'Boleto:<bid>' are back to 'Pendente', committed
bol_des_upd(bid, confirm) ==
    /\ tx.pc = "idle"
    /\ IF ~confirm
       THEN /\ msg' = "erro"
            /\ UNCHANGED <<lancamentos, tx>>
       ELSE /\ lancamentos' =
                   [l \in DOMAIN lancamentos |->
                       IF lancamentos[l].forma_pagamento = BoletoTag(bid)
                       THEN [lancamentos[l] EXCEPT !.status = Pendente,
                                                   !.forma_pagamento = NULL]
                       ELSE lancamentos[l]]
            /\ tx' = [pc |-> "bol_del", bid |-> bid]
            /\ UNCHANGED msg
    /\ UNCHANGED <<contas, faturas, pagamentos, seq_fat, seq_lanc, edit_row,
                   df_pend_cache>>

\* the second exec_sql of bol_des_btn: the slip is deleted, then clear_cache,
\* the toast and the rerun
bol_des_del ==
    /\ tx.pc = "bol_del"
    /\ lancamentos' =
           [l \in DOMAIN lancamentos \
                     {x \in DOMAIN lancamentos :
                         /\ x = tx.bid
                         /\ lancamentos[x].tipo = "RECEITA"
                         /\ lancamentos[x].forma_pagamento = Boleto} |->
               lancamentos[l]]
    /\ tx' = TxIdle
    /\ msg' = "ok"
    /\ df_pend_cache' = NoCache
    /\ UNCHANGED <<contas, faturas, pagamentos, seq_fat, seq_lanc, edit_row>>

\* the second exec_sql of bol_des_btn raises: the handler ends there
bol_des_falha ==
    /\ tx.pc = "bol_del"
    /\ tx' = TxIdle
    /\ msg' = "excecao"
    /\ UNCHANGED <<contas, faturas, lancamentos, pagamentos, seq_fat, seq_lanc,
                   edit_row, df_pend_cache>>

BolTxNext ==
    \/ /\ \E n \in 1..MaxLote, v \in ValoresBol : lot_rec_go(n, v, 1, 1)
       /\ UNCHANGED <<sess, parc, money, l_prev_df, df_pend_cache>>
    \/ /\ \E sel \in SUBSET (1..MaxSeqBol) : bol_gerar_ins(sel, 1, 2, DescBoleto)
       /\ UNCHANGED <<sess, parc, money, l_prev_df>>
    \/ /\ bol_gerar_upd
       /\ UNCHANGED <<sess, parc, money, l_prev_df>>
    \/ /\ bol_gerar_falha
       /\ UNCHANGED <<sess, parc, money, l_prev_df>>
    \/ /\ \E bid \in 1..MaxSeqBol, confirm \in BOOLEAN : bol_des_upd(bid, confirm)
       /\ UNCHANGED <<sess, parc, money, l_prev_df>>
    \/ /\ bol_des_del
       /\ UNCHANGED <<sess, parc, money, l_prev_df>>
    \/ /\ bol_des_falha
       /\ UNCHANGED <<sess, parc, money, l_prev_df>>

SpecBolTx == Init /\ [][BolTxNext]_vars

(***************************************************************************)
(* Properties of the installment allocator (SpecParcelas).                 *)
(***************************************************************************)
Abs(x) == IF x < 0 THEN 0 - x ELSE x

\* c is a cent value nearest to num/den cents (either neighbour at a tie)
IsRounded(c, num, den) == 2 * Abs(c * den - num) <= den

SumFirst(s, k) == SumSeq(SubSeq(s, 1, k))

C6_Common ==
    /\ Len(parc.vals) = parc.n
    /\ parc.n = 1 => IsRounded(parc.vals[1], parc.v_in, 10)
    /\ (parc.n >= 2 /\ parc.modo = "Total") =>
           \A i \in 1..(parc.n - 1) : IsRounded(parc.vals[i], parc.v_in, 10 * parc.n)
    /\ (parc.n >= 2 /\ parc.modo = "Parcela") =>
           \A i \in 1..parc.n : IsRounded(parc.vals[i], parc.v_in, 10)

\* C6 (as claimed): for count >= 1 the allocator returns exactly count amounts;
\* in 'Total' mode every amount but the last is round(total/count, 2) and the
\* last is total minus the sum of the others; in 'Parcela' mode every amount is
\* round(amount, 2); for count = 1 the result is [round(value, 2)].
C6_Original ==
    parc.pc = "calculado" =>
        /\ C6_Common
        /\ (parc.n >= 2 /\ parc.modo = "Total") =>
               10 * parc.vals[parc.n] = parc.v_in - 10 * SumFirst(parc.vals, parc.n - 1)

\* C6 (amended): as claimed, except that the last amount in 'Total' mode is
\* round(total - sum of the others, 2); it is total minus the sum of the others
\* whenever the total has at most two decimals.
C6_AllocatorShape ==
    parc.pc = "calculado" =>
        /\ C6_Common
        /\ (parc.n >= 2 /\ parc.modo = "Total") =>
               LET rest == parc.v_in - 10 * SumFirst(parc.vals, parc.n - 1)
               IN  /\ IsRounded(parc.vals[parc.n], rest, 10)
                   /\ parc.v_in % 10 = 0 => 10 * parc.vals[parc.n] = rest

\* a 'Total' split of a total typed with a third decimal
C6_Witness ==
    /\ parc.pc = "calculado" /\ parc.modo = "Total"
    /\ parc.n >= 2
    /\ parc.v_in % 10 # 0
    /\ parc.vals[1] > 0
    /\ parc.vals[parc.n] # parc.vals[1]


(***************************************************************************)
(* Properties of the money codec (SpecMoney).                              *)
(***************************************************************************)
\* C7: money round trip: for every two-decimal value x of the range (0.00,
\* 1630.00, 1000000.55 and negative values among them), parse_brl(br_money(x)) = x.
C7_RoundTrip ==
    (money.pc = "lido" /\ money.origem = "valor") => money.lido = OfCents(money.x)

\* 1000000.55 went through "1.000.000,55" and came back
C7_Witness ==
    /\ money.pc = "lido" /\ money.origem = "valor"
    /\ money.x = 100000055
    /\ money.txt = <<"1", ".", "0", "0", "0", ".", "0", "0", "0", ",", "5", "5">>
    /\ money.lido = [neg |-> FALSE, ip |-> 1000000, fd |-> <<"5", "5">>]

\* the value of a plain text: digits, then optionally '.' and digits
IsPlain(s) ==
    /\ s # << >> /\ s[1] \in DigitSet
    /\ \A i \in 1..Len(s) : s[i] \in DigitSet \cup {"."}
    /\ Cardinality({i \in 1..Len(s) : s[i] = "."}) <= 1
PlainValue(s) ==
    LET k == IF Has(s, ".") THEN CHOOSE i \in 1..Len(s) : s[i] = "." ELSE Len(s) + 1
    IN  Decimal(FALSE, DigitsVal(SubSeq(s, 1, k - 1)), TrimZeros(SubSeq(s, k + 1, Len(s))))

\* C8: parse_brl disambiguates separators: with both ',' and '.', every '.' is
\* dropped as a thousands separator and ',' is the decimal point; with only
\* ',', the ',' is the decimal point; with only '.', the '.' is the decimal
\* point.  "1.630,00", "1630.00" and "1630,00" all parse to 1630.00.
C8_Separators ==
    money.pc = "lido" =>
        /\ (Has(money.txt, ",") /\ Has(money.txt, "."))
               => money.lido = parse_brl(Remove(money.txt, "."))
        /\ (Has(money.txt, ",") /\ ~Has(money.txt, "."))
               => money.lido = parse_brl(Replace(money.txt, ",", "."))
        /\ IsPlain(money.txt) => money.lido = PlainValue(money.txt)
        /\ money.txt \in Exemplos => money.lido = OfCents(163000)

\* a typed text with both separators was parsed to a non-zero value
C8_Witness ==
    /\ money.pc = "lido" /\ money.origem = "texto"
    /\ Has(money.txt, ",") /\ Has(money.txt, ".")
    /\ money.txt \notin Exemplos
    /\ money.lido # Zero


(***************************************************************************)
(* Properties of the statements' life (Spec).                              *)
(***************************************************************************)
\* pay has succeeded on statement f: its pagamentos_fatura row is committed
\* (no handler deletes from pagamentos_fatura)
PaySucceededOn(f) == \E p \in pagamentos : p.fatura_id = f

C2_PaidIffOneSettlement ==
    \A f \in DOMAIN faturas :
        (faturas[f].status = "PAGA")
            <=> (Cardinality({p \in pagamentos : p.fatura_id = f}) = 1)

\* the three writes of a pay, seen in one step of the committed tables
NoPayWriteVisible == store' = store
AllPayWritesVisible ==
    LET newL == DOMAIN lancamentos' \ DOMAIN lancamentos
        newP == pagamentos' \ pagamentos
    IN  /\ Cardinality(newL) = 1 /\ Cardinality(newP) = 1
        /\ \A l \in newL, p \in newP :
              /\ p.lancamento_saida_id = l
              /\ p.fatura_id = tx.fatura_id
              /\ lancamentos'[l].tipo = "DESPESA"
        /\ faturas[tx.fatura_id].status # "PAGA"
        /\ faturas'[tx.fatura_id].status = "PAGA"

\* C3: pay is atomic: while its connection is open, and when it ends, the
\* committed tables show none of its three writes (new Expense entry,
\* pagamentos_fatura row, status = PAGA) or, at commit, all three together; a
\* failure after the entry insert, after the settlement-row insert or before
\* the commit leaves none of them.
C3_PayAtomic ==
    [][ /\ (tx.pc # "idle" \/ tx'.pc # "idle")
            => (NoPayWriteVisible \/ (tx'.pc = "idle" /\ AllPayWritesVisible))
        /\ (tx.pc # "idle" /\ msg' = "excecao") => NoPayWriteVisible
      ]_vars

\* all three statements of a pay have run on the open connection and the
\* committed tables show none of them: a failure here loses all three
C3_Witness ==
    /\ tx.pc = "status_atualizado"
    /\ DOMAIN lancamentos = {}
    /\ pagamentos = {}
    /\ faturas[tx.fatura_id].status # "PAGA"

EqualsIgnoringCase(s, w) ==
    /\ s # NULL
    /\ Len(s) = Len(w)
    /\ \A i \in 1..Len(w) :
          \/ s[i] = w[i]
          \/ \E k \in DOMAIN UpperCase :
                 {s[i], w[i]} = {UpperCase[k], LowerCase[k]}

\* the entry l is settled: by its status word or by a settlement date
Settled(l) ==
    \/ /\ lancamentos[l].tipo = "RECEITA"
       /\ EqualsIgnoringCase(lancamentos[l].status, Recebido)
    \/ /\ lancamentos[l].tipo = "DESPESA"
       /\ EqualsIgnoringCase(lancamentos[l].status, Pago)
    \/ lancamentos[l].dt_liquidacao # 0

\* the sum of the amounts of the entries of account c of one kind that are settled
SettledTotal(c, tipo) ==
    SumSeq([l \in 1..seq_lanc |->
               IF /\ l \in DOMAIN lancamentos
                  /\ lancamentos[l].conta_id = c
                  /\ lancamentos[l].tipo = tipo
                  /\ Settled(l)
               THEN lancamentos[l].valor ELSE 0])

\* C9: the settled balance of an account is its opening balance plus its settled
\* Income minus its settled Expense, an entry being settled when its status is
\* 'recebido' (Income) or 'pago' (Expense) in any letter case or its settlement
\* date is set; with no entry the settled balance is the opening balance.
C9_SettledBalance ==
    \A c \in DOMAIN contas :
        /\ saldo_conta_real(contas[c].nome)
              = contas[c].saldo_inicial + SettledTotal(c, "RECEITA")
                                        - SettledTotal(c, "DESPESA")
        /\ lancamentos_da_conta(c) = {}
              => saldo_conta_real(contas[c].nome) = contas[c].saldo_inicial

\* an account with a non-zero opening balance holds an Income settled by its
\* date alone and an Expense that is not settled, beside an entry of another
\* account
C9_Witness ==
    \E c \in DOMAIN contas, a \in DOMAIN lancamentos, b \in DOMAIN lancamentos :
        /\ contas[c].saldo_inicial # 0
        /\ lancamentos[a].conta_id = c /\ lancamentos[a].tipo = "RECEITA"
        /\ lancamentos[a].dt_liquidacao # 0
        /\ ~EqualsIgnoringCase(lancamentos[a].status, Recebido)
        /\ saldo_conta_real(contas[c].nome) = contas[c].saldo_inicial + lancamentos[a].valor
        /\ lancamentos[b].conta_id # c

\* the account c is in the state of the balance scenario: opening balance
\* 1000.00, exactly one Income of 200.00 "Recebido" and one Expense of 50.00
\* "Pendente", neither with a settlement date
BalanceScenario(c) ==
    /\ contas[c].tipo = "CONTA"
    /\ contas[c].saldo_inicial = 100000
    /\ \E a \in DOMAIN lancamentos, b \in DOMAIN lancamentos :
          /\ lancamentos_da_conta(c) = {a, b}
          /\ lancamentos[a].tipo = "RECEITA" /\ lancamentos[a].valor = 20000
          /\ lancamentos[a].status = Recebido /\ lancamentos[a].dt_liquidacao = 0
          /\ lancamentos[b].tipo = "DESPESA" /\ lancamentos[b].valor = 5000
          /\ lancamentos[b].status = Pendente /\ lancamentos[b].dt_liquidacao = 0

\* C10 as stated: in the balance scenario the settled balance is 1150.00, the
\* projected payable 50.00 and the projected receivable 0.00.
C10_Original ==
    \A c \in DOMAIN contas :
        BalanceScenario(c) =>
            /\ saldo_conta_real(contas[c].nome) = 115000
            /\ previsao_pagar_conta(contas[c].nome) = 5000
            /\ previsao_receber_conta(contas[c].nome) = 0

\* C10: in the balance scenario the settled balance is 1200.00 (the pending
\* Expense is not taken out of it), the projected payable 50.00 and the
\* projected receivable 0.00.
C10_BalanceScenario ==
    \A c \in DOMAIN contas :
        BalanceScenario(c) =>
            /\ saldo_conta_real(contas[c].nome) = 120000
            /\ previsao_pagar_conta(contas[c].nome) = 5000
            /\ previsao_receber_conta(contas[c].nome) = 0

C10_Witness == \E c \in DOMAIN contas : BalanceScenario(c)

\* the entry l counts as pending: its status is 'pendente' in any letter case,
\* or it has no status
Pending(l) ==
    \/ lancamentos[l].status = NULL
    \/ EqualsIgnoringCase(lancamentos[l].status, Pendente)

\* the sum of the amounts of the pending entries of account c of one kind
PendingTotal(c, tipo) ==
    SumSeq([l \in 1..seq_lanc |->
               IF /\ l \in DOMAIN lancamentos
                  /\ lancamentos[l].conta_id = c
                  /\ lancamentos[l].tipo = tipo
                  /\ Pending(l)
               THEN lancamentos[l].valor ELSE 0])

\* C11: the projected receivable of an account is the sum of the amounts of its
\* Income entries whose status is 'pendente' in any letter case, an entry with
\* no status counting as pending; the projected payable is the same over its
\* Expense entries; each is 0 when the account has no such entry.
C11_Projected ==
    \A c \in DOMAIN contas :
        /\ previsao_receber_conta(contas[c].nome) = PendingTotal(c, "RECEITA")
        /\ previsao_pagar_conta(contas[c].nome) = PendingTotal(c, "DESPESA")
        /\ (\A l \in lancamentos_da_conta(c) :
                ~(lancamentos[l].tipo = "RECEITA" /\ Pending(l)))
              => previsao_receber_conta(contas[c].nome) = 0
        /\ (\A l \in lancamentos_da_conta(c) :
                ~(lancamentos[l].tipo = "DESPESA" /\ Pending(l)))
              => previsao_pagar_conta(contas[c].nome) = 0

\* an account holds an Income with no status, which is counted, beside an
\* Income that is not pending, which is not
C11_Witness ==
    \E c \in DOMAIN contas, a \in DOMAIN lancamentos, b \in DOMAIN lancamentos :
        /\ lancamentos_da_conta(c) = {a, b} /\ a # b
        /\ lancamentos[a].tipo = "RECEITA" /\ lancamentos[a].status = NULL
        /\ lancamentos[b].tipo = "RECEITA" /\ ~Pending(b)
        /\ previsao_receber_conta(contas[c].nome) = lancamentos[a].valor
        /\ previsao_pagar_conta(contas[c].nome) = 0

(***************************************************************************)
(* C12: every installment of an expense on a card account that is          *)
(* recorded is tagged with a statement of that same card whose period      *)
(* [dt_inicio, dt_fim] contains the installment's dt_competencia, and that *)
(* statement is ABERTA when the installment is recorded.                   *)
(***************************************************************************)
CardExpense(l) ==
    /\ l.tipo = "DESPESA"
    /\ l.conta_id \in DOMAIN contas
    /\ contas[l.conta_id].tipo = "CARTAO"

TaggedWithOpenCovering(l) ==
    /\ l.fatura_id \in DOMAIN faturas
    /\ faturas[l.fatura_id].conta_id = l.conta_id
    /\ faturas[l.fatura_id].dt_inicio <= l.dt_competencia
    /\ l.dt_competencia <= faturas[l.fatura_id].dt_fim
    /\ faturas[l.fatura_id].status = "ABERTA"

Covers(f, card, dt) ==
    /\ faturas[f].conta_id = card
    /\ faturas[f].dt_inicio <= dt
    /\ dt <= faturas[f].dt_fim

CoveringResult(card, dt, res) ==
    IF \A f \in DOMAIN faturas : ~Covers(f, card, dt)
    THEN res = 0
    ELSE /\ res \in DOMAIN faturas
         /\ Covers(res, card, dt)
         /\ \A g \in DOMAIN faturas :
               Covers(g, card, dt) => faturas[g].dt_fim <= faturas[res].dt_fim

C13_CoveringStatement ==
    [][l_prev_df' # l_prev_df =>
          \A i \in DOMAIN l_prev_df' :
             CoveringResult(l_prev_df'[i].conta_id, l_prev_df'[i].dt_competencia,
                            l_prev_df'[i].fatura_id)]_vars

\* two adjacent periods A and B on one card, and an installment dated inside
\* A that was given A
C13_Witness ==
    \E a \in DOMAIN faturas, b \in DOMAIN faturas, i \in DOMAIN l_prev_df :
       /\ faturas[a].conta_id = faturas[b].conta_id
       /\ faturas[a].dt_fim < faturas[b].dt_inicio
       /\ l_prev_df[i].conta_id = faturas[a].conta_id
       /\ Covers(a, l_prev_df[i].conta_id, l_prev_df[i].dt_competencia)
       /\ l_prev_df[i].fatura_id = a

(***************************************************************************)
(* C14: "Salvar fatura" creates a new statement with status ABERTA when    *)
(* the card has none for the competencia; when it has one, only dt_inicio, *)
(* dt_fim, dt_fechamento and dt_vencimento of that statement change: its   *)
(* id, status and competencia, and every other statement, stay as they     *)
(* were.  A step is a successful "Salvar fatura" exactly when it advances  *)
(* the sequence of faturas.id.                                             *)
(***************************************************************************)
SameKey(a, b) == a.conta_id = b.conta_id /\ a.competencia = b.competencia

UpsertCreated ==
    \E f \in DOMAIN faturas' \ DOMAIN faturas :
       /\ DOMAIN faturas' = DOMAIN faturas \cup {f}
       /\ faturas'[f].status = "ABERTA"
       /\ \A g \in DOMAIN faturas :
             faturas'[g] = faturas[g] /\ ~SameKey(faturas[g], faturas'[f])

UpsertUpdated ==
    /\ DOMAIN faturas' = DOMAIN faturas
    /\ \E f \in DOMAIN faturas :
          /\ faturas'[f].status = faturas[f].status
          /\ SameKey(faturas'[f], faturas[f])
          /\ \A g \in DOMAIN faturas \ {f} : faturas'[g] = faturas[g]

C14_UpsertFrame == [][seq_fat' # seq_fat => UpsertCreated \/ UpsertUpdated]_vars

\* the second "Salvar fatura" met the statement the first one created, by
\* then no longer ABERTA, and changed its period
C14_Witness ==
    /\ seq_fat = 2
    /\ msg = "ok"
    /\ DOMAIN faturas = {1}
    /\ faturas[1].status = "FECHADA"
    /\ faturas[1].dt_inicio = 2
    /\ pagamentos = {}

(***************************************************************************)
(* C15: in every reachable state every statement has dt_inicio <= dt_fim:  *)
(* "Salvar fatura" refuses dt_inicio > dt_fim and no other operation, the  *)
(* batch editor of the Faturas tab included, stores such a period.         *)
(***************************************************************************)
C15_PeriodOrdered ==
    \A f \in DOMAIN faturas : faturas[f].dt_inicio <= faturas[f].dt_fim

(***************************************************************************)
(* C16: in every reachable state there is at most one statement for each   *)
(* pair (card account, competencia), whatever "Salvar fatura", the batch   *)
(* editor and "Excluir fatura" did before.                                 *)
(***************************************************************************)
C16_OnePerCardMonth ==
    \A f \in DOMAIN faturas, g \in DOMAIN faturas :
       (/\ faturas[f].conta_id = faturas[g].conta_id
        /\ faturas[f].competencia = faturas[g].competencia) => f = g

\* "Salvar fatura" ran twice and the card still has the one statement of the
\* first run, with the dates of the second
C16_Witness ==
    /\ seq_fat = 2
    /\ msg = "ok"
    /\ DOMAIN faturas = {1}
    /\ faturas[1].status = "ABERTA"
    /\ faturas[1].dt_inicio = 1
    /\ faturas[1].dt_fim = 1
    /\ faturas[1].dt_fechamento = MaxDate

(***************************************************************************)
(* C17: "Excluir fatura" on a statement no entry references succeeds and   *)
(* removes it, whatever its status; a statement that entries reference is  *)
(* never removed.                                                          *)
(***************************************************************************)
Referenced(f) == \E l \in DOMAIN lancamentos : lancamentos[l].fatura_id = f

C18_RecordedValid ==
    [][/\ \A l \in DOMAIN lancamentos' \ DOMAIN lancamentos :
             /\ lancamentos'[l].valor > 0
             /\ Strip(lancamentos'[l].descricao) # << >>
       /\ msg' = "erro" => lancamentos' = lancamentos]_vars

(***************************************************************************)
(* C19: "Salvar lancamento(s)" on a preview of which some rows fail and    *)
(* others are valid.  As claimed: the failing rows are left out and        *)
(* reported and every valid row is committed.  As the code has it: the     *)
(* save is all or nothing; entries are added only by a save that adds      *)
(* every row of the preview and clears it, and a save that reports a row   *)
(* (msg "erro" on preparation, "excecao" from the store) adds none.        *)
(***************************************************************************)
\* the rows of the edited preview that fail: preparation raises, or the store
\* refuses the row
FailingRows(k, campo, novo, nan_raises) ==
    LET edited == Editado(k, campo, novo)
    IN  {i \in DOMAIN edited :
            \/ PreparoFalhaSempre(edited, i)
            \/ (nan_raises /\ PreparoPodeFalhar(edited, i))
            \/ LinhaRecusada(LinhaPreparada(edited[i]))}

SlipOf(sel, b) ==
    /\ DOMAIN lancamentos' = DOMAIN lancamentos \cup {b}
    /\ lancamentos'[b].tipo = "RECEITA"
    /\ lancamentos'[b].status = Pendente
    /\ lancamentos'[b].dt_liquidacao = 0
    /\ lancamentos'[b].valor = SomaValor(sel \cap DOMAIN lancamentos)
    /\ \A l \in DOMAIN lancamentos :
          IF l \in sel
          THEN lancamentos'[l] = [lancamentos[l] EXCEPT
                                     !.status = Agrupada,
                                     !.forma_pagamento = BoletoTag(b)]
          ELSE lancamentos'[l] = lancamentos[l]

C20_GroupIntoSlip ==
    [][\A sel \in SUBSET (1..MaxSeqBol) :
          bol_gerar(sel, 1, 2, DescBoleto) =>
             IF sel = {} \/ SomaValor(sel \cap DOMAIN lancamentos) <= 0
             THEN lancamentos' = lancamentos
             ELSE \E b \in DOMAIN lancamentos' \ DOMAIN lancamentos : SlipOf(sel, b)]_vars

(***************************************************************************)
(* C21: grouping pending RECEITA entries and then "Desagrupar" with the id *)
(* of the slip created gives back the table of before the grouping: the   *)
(* slip is gone and every grouped entry has status, forma_pagamento,       *)
(* valor and dates as they were.                                           *)
(***************************************************************************)
C21_GroupingInverse ==
    [][\A sel \in SUBSET (1..MaxSeqBol) :
          (/\ bol_gerar(sel, 1, 2, DescBoleto)
           /\ msg' = "ok"
           /\ sel \subseteq DOMAIN df_pend_query)
          => bol_des_sql(lancamentos', seq_lanc') = lancamentos]_vars

(***************************************************************************)
(* C22: "Gerar boleto" and "Desagrupar" are each one transaction: no       *)
(* state of the store, a failure between their statements included, has   *)
(* a slip of which no entry carries the tag 'Boleto:<id>' (the slip is     *)
(* there but the entries are not yet tagged, or the entries are back to    *)
(* 'Pendente' and the slip is still there).                                *)
(***************************************************************************)
IsSlip(b) ==
    /\ lancamentos[b].tipo = "RECEITA"
    /\ lancamentos[b].forma_pagamento = Boleto

C22_GroupAtomic ==
    \A b \in DOMAIN lancamentos :
       IsSlip(b) => \E l \in DOMAIN lancamentos :
                       lancamentos[l].forma_pagamento = BoletoTag(b)

(***************************************************************************)
(* C23: "Gerar previa" gives exactly `parcelas` rows; row i (from 0) is    *)
(* dated i calendar months after the purchase date, counted from the       *)
(* purchase date, the day kept or clamped to the last day of the month     *)
(* when that month has no such day; its prestacao is "{i+1}/{parcelas}"    *)
(* when parcelas > 1 and empty when parcelas = 1.                          *)
(***************************************************************************)
Digito == <<"1", "2", "3", "4", "5", "6", "7", "8", "9">>

MonthsAfter(d0, i, d) ==
    /\ MonthOf(d) = MonthOf(d0) + i
    /\ DayOf(d) = IF DayOf(d0) <= DaysIn(MonthOf(d0) + i)
                  THEN DayOf(d0) ELSE DaysIn(MonthOf(d0) + i)

PreviaDe(e) ==
    l_previa(e.tipo, 1, e.d, e.n, << "T", "V" >>, 1000, "Total", e.st, e.liq, 0, TRUE, TRUE)

C23_PreviewDates ==
    [][\A e \in EntradasDatas :
          (PreviaDe(e) /\ msg' = "none") =>
             /\ Len(l_prev_df') = e.n
             /\ \A i \in 1..e.n :
                   /\ MonthsAfter(e.d, i - 1, l_prev_df'[i].dt_competencia)
                   /\ l_prev_df'[i].prestacao =
                         IF e.n > 1 THEN << Digito[i], "/", Digito[e.n] >> ELSE NULL]_vars

\* three rows from 31 January: 31 January, 28 February, 31 March
C23_Witness ==
    /\ Len(l_prev_df) = 3
    /\ l_prev_df[1].dt_competencia = DateOf(0, 31)
    /\ l_prev_df[2].dt_competencia = DateOf(1, 28)
    /\ l_prev_df[3].dt_competencia = DateOf(2, 31)
    /\ l_prev_df[3].prestacao = << "3", "/", "3" >>

(***************************************************************************)
(* C24: the dt_liquidacao of a row of the preview.  As claimed: today when *)
(* the status of the row is 'Pago', empty otherwise.  As the code has it:  *)
(* the date typed in "Data liquidacao (opcional)", empty when none was     *)
(* typed, the same in every row and whatever the status.                   *)
(***************************************************************************)
C24_Original ==
    [][\A e \in EntradasDatas :
          (PreviaDe(e) /\ msg' = "none") =>
             \A i \in 1..Len(l_prev_df') :
                l_prev_df'[i].dt_liquidacao =
                   IF l_prev_df'[i].status = Pago THEN Hoje ELSE 0]_vars

C24_SettlementAsTyped ==
    [][\A e \in EntradasDatas :
          (PreviaDe(e) /\ msg' = "none") =>
             \A i \in 1..Len(l_prev_df') :
                /\ l_prev_df'[i].dt_liquidacao = e.liq
                /\ l_prev_df'[i].status = e.st]_vars

\* rows with status 'Pago' and no settlement date, as typed
C24_Witness ==
    /\ Len(l_prev_df) = 2
    /\ \A i \in 1..2 : l_prev_df[i].status = Pago /\ l_prev_df[i].dt_liquidacao = 0

(***************************************************************************)
(* C25: in every reachable state every account of tipo CARTAO has          *)
(* saldo_inicial = 0, whatever "Adicionar" and the accounts editor did.    *)
(***************************************************************************)
C25_CardOpeningZero ==
    \A c \in DOMAIN contas : contas[c].tipo = "CARTAO" => contas[c].saldo_inicial = 0

(***************************************************************************)
(* C26: "Excluir", "Aplicar baixa" and "Desagrupar" given an id that is    *)
(* not in lancamentos end in a failure shown to the user (msg "erro" or    *)
(* "excecao"), never in a success that changed nothing; the edit form is   *)
(* not reached for such an id.                                             *)
(***************************************************************************)
Failure == msg' \in {"erro", "excecao"}

C26_NotFoundReported ==
    [][\A id \in (1..MaxSeqBol) \ DOMAIN lancamentos :
          /\ del_lanc_btn(id, TRUE) => Failure
          /\ (\E d \in DatasBaixa \ {0}, st \in NovoStatus : batch_apply({id}, d, st))
                => Failure
          /\ bol_des_btn(id, TRUE) => Failure]_vars

(***************************************************************************)
(* C27: for every positive total in whole cents and every count in 1..60,  *)
(* every amount _calc_valores_parcelas returns in 'Total' mode is greater  *)
(* than 0; the last one, which takes the residual, is never 0 or negative. *)
(***************************************************************************)
C27_AmountsPositive ==
    (parc.pc = "calculado" /\ parc.modo = "Total" /\ parc.v_in % 10 = 0)
        => \A i \in 1..Len(parc.vals) : parc.vals[i] > 0

(***************************************************************************)
(* SpecPagar: two browser sessions press "Pagar fatura" (fc_pagar) while   *)
(* the statements are created and edited.  A script run reads the status   *)
(* of the statement when it builds the selectbox (1306-1314) and then      *)
(* works on a connection of its own (1377-1401): what it writes is seen by *)
(* the other session only after conn.commit(), and is dropped when an      *)
(* exception leaves the "with get_conn() as conn" block.                   *)
(***************************************************************************)
MaxSeqPagar == 3        \* values drawn from lancamentos' id sequence by the two sessions

\* the outcome a script run leaves in its session
SessFim(f, m, causa) == [pc |-> "idle", msg |-> m, fatura_id |-> f, causa |-> causa]

\* pagamentos_fatura with no UNIQUE on fatura_id: no row ever conflicts
pagamentos_sem_key(fatura_id) == {}

\* UNIQUE of pagamentos_fatura.fatura_id: the committed rows an INSERT conflicts with
pagamentos_fatura_fatura_id_key(fatura_id) == {p \in pagamentos : p.fatura_id = fatura_id}

\* the sessions, other than s, whose connection inserted a row of
\* pagamentos_fatura for the statement and has not ended: an INSERT of the same
\* key waits for them
pagamentos_em_curso(s, fatura_id) ==
    {o \in Sessoes \ {s} : /\ sess[o].pc \in {"pag_inserido", "status_atualizado"}
                           /\ sess[o].fatura_id = fatura_id}

\* the script run of the click: status_fat is read, then the guards on it and
\* on the typed amount
fc_pagar_ler(s, f, valor_pg, dt_pg) ==
    /\ sess[s].pc = "idle"
    /\ f \in DOMAIN faturas
    /\ faturas[f].conta_id \in contas_cartao
    /\ cora # {}
    /\ sess' = [sess EXCEPT ![s] =
                 IF faturas[f].status = "PAGA" THEN SessFim(f, "aviso", "")
                 ELSE IF valor_pg <= 0 THEN SessFim(f, "erro", "")
                 ELSE [pc |-> "lido", msg |-> "none", fatura_id |-> f,
                       valor |-> valor_pg, dt |-> dt_pg]]
    /\ UNCHANGED <<contas, faturas, lancamentos, pagamentos, seq_fat, seq_lanc, tx,
                   edit_row, msg>>

\* the label is read, the connection opened and INSERT INTO lancamentos ...
\* RETURNING id executed: the id is drawn, the row is not committed
fc_pagar_ins_lanc(s) ==
    /\ sess[s].pc = "lido"
    /\ sess[s].fatura_id \in DOMAIN faturas
    /\ cora # {}
    /\ seq_lanc < MaxSeqPagar
    /\ seq_lanc' = seq_lanc + 1
    /\ sess' = [sess EXCEPT ![s] =
                 [pc |-> "lanc_inserido", msg |-> "none", fatura_id |-> sess[s].fatura_id,
                  valor |-> sess[s].valor, dt |-> sess[s].dt, lanc_id |-> seq_lanc',
                  lanc |-> LancSaida(sess[s].fatura_id, sess[s].valor, sess[s].dt,
                                     CHOOSE c \in cora : TRUE)]]
    /\ UNCHANGED <<contas, faturas, lancamentos, pagamentos, seq_fat, tx, edit_row, msg>>

\* INSERT INTO pagamentos_fatura: it waits while another connection holds the
\* same key uncommitted, and raises when a committed row has it
fc_pagar_ins_pag(s) ==
    /\ sess[s].pc = "lanc_inserido"
    /\ pagamentos_em_curso(s, sess[s].fatura_id) = {}
    /\ sess' = [sess EXCEPT ![s] =
                 IF pagamentos_fatura_fatura_id_key(sess[s].fatura_id) # {}
                 THEN SessFim(sess[s].fatura_id, "excecao", "UniqueViolation")
                 ELSE [sess[s] EXCEPT !.pc = "pag_inserido"]]
    /\ UNCHANGED <<contas, faturas, lancamentos, pagamentos, seq_fat, seq_lanc, tx,
                   edit_row, msg>>

\* UPDATE faturas SET status='PAGA' on the connection
fc_pagar_upd(s) ==
    /\ sess[s].pc = "pag_inserido"
    /\ sess' = [sess EXCEPT ![s].pc = "status_atualizado"]
    /\ UNCHANGED <<contas, faturas, lancamentos, pagamentos, seq_fat, seq_lanc, tx,
                   edit_row, msg>>

\* conn.commit() and the toast: the three writes become visible together
fc_pagar_fim(s) ==
    /\ sess[s].pc = "status_atualizado"
    /\ lancamentos' = lancamentos @@ (sess[s].lanc_id :> sess[s].lanc)
    /\ pagamentos' = pagamentos \cup
           {[fatura_id |-> sess[s].fatura_id, lancamento_saida_id |-> sess[s].lanc_id,
             dt_pagamento |-> sess[s].dt, valor |-> sess[s].valor]}
    /\ faturas' = [faturas EXCEPT ![sess[s].fatura_id].status = "PAGA"]
    /\ sess' = [sess EXCEPT ![s] = SessFim(sess[s].fatura_id, "ok", "")]
    /\ UNCHANGED <<contas, seq_fat, seq_lanc, tx, edit_row, msg>>

\* the connection is lost while it is open: nothing it wrote is kept
fc_pagar_cai(s) ==
    /\ sess[s].pc \in {"lanc_inserido", "pag_inserido", "status_atualizado"}
    /\ sess' = [sess EXCEPT ![s] = SessFim(sess[s].fatura_id, "excecao", "OperationalError")]
    /\ UNCHANGED <<contas, faturas, lancamentos, pagamentos, seq_fat, seq_lanc, tx,
                   edit_row, msg>>

PagarNext ==
    \/ /\ \E c \in DOMAIN contas, comp \in Comps : f_save(c, comp, 1, MaxDate, MaxDate, MaxDate)
       /\ UNCHANGED <<sess, parc, money, l_prev_df, df_pend_cache>>
    \/ /\ \E f \in DOMAIN faturas, st \in StatusFatura :
             fat_save(f, 1, MaxDate, MaxDate, MaxDate, st)
       /\ UNCHANGED <<sess, parc, money, l_prev_df, df_pend_cache>>
    \/ /\ \E s \in Sessoes, f \in DOMAIN faturas, v \in PayValores : fc_pagar_ler(s, f, v, 1)
       /\ UNCHANGED <<parc, money, l_prev_df, df_pend_cache>>
    \/ /\ \E s \in Sessoes : fc_pagar_ins_lanc(s)
       /\ UNCHANGED <<parc, money, l_prev_df, df_pend_cache>>
    \/ /\ \E s \in Sessoes : fc_pagar_ins_pag(s)
       /\ UNCHANGED <<parc, money, l_prev_df, df_pend_cache>>
    \/ /\ \E s \in Sessoes : fc_pagar_upd(s)
       /\ UNCHANGED <<parc, money, l_prev_df, df_pend_cache>>
    \/ /\ \E s \in Sessoes : fc_pagar_fim(s)
       /\ UNCHANGED <<parc, money, l_prev_df, df_pend_cache>>
    \/ /\ \E s \in Sessoes : fc_pagar_cai(s)
       /\ UNCHANGED <<parc, money, l_prev_df, df_pend_cache>>

SpecPagar == Init /\ [][PagarNext]_vars

\* the settlement entries of statement f: the DESPESA entries fc_pagar wrote
\* for its card and month
Quitacoes(f) ==
    {l \in DOMAIN lancamentos :
        /\ lancamentos[l].tipo = "DESPESA"
        /\ lancamentos[l].descricao = <<"Pagamento Fatura", contas[faturas[f].conta_id].nome,
                                        CompLabel(faturas[f].competencia)>>}

(***************************************************************************)
(* C28: however the pays of two sessions that both read a statement as not *)
(* PAGA interleave, the statement has at most one settlement entry and at  *)
(* most one pagamentos_fatura row, and every settlement entry is the one   *)
(* of that row: the pay that loses leaves no entry behind.                 *)
(***************************************************************************)
C28_OneSettlement ==
    \A f \in DOMAIN faturas :
        /\ Cardinality(Quitacoes(f)) <= 1
        /\ Cardinality({p \in pagamentos : p.fatura_id = f}) <= 1
        /\ \A l \in Quitacoes(f) :
               \E p \in pagamentos : p.fatura_id = f /\ p.lancamento_saida_id = l

\* both sessions were inside fc_pagar's transaction for the same statement;
\* one committed, the other hit the UNIQUE key and was rolled back
C28_Witness ==
    \E s \in Sessoes, o \in Sessoes :
        /\ sess[s] = SessFim(sess[o].fatura_id, "ok", "")
        /\ sess[o].pc = "idle"
        /\ sess[o].msg = "excecao"
        /\ sess[o].causa = "UniqueViolation"
        /\ seq_lanc = 2
        /\ Cardinality(Quitacoes(sess[s].fatura_id)) = 1

(***************************************************************************)
(* SpecBolBaixa: the Boletos tab next to the settlement of entries         *)
(* ("Aplicar baixa", "Salvar edicao"), which write lancamentos and leave   *)
(* the entry of cached_df as it is.                                        *)
(***************************************************************************)
StatusBaixa == {Recebido, Cancelado}

BolBaixaNext ==
    \/ /\ \E n \in 1..MaxLote, v \in ValoresBol : lot_rec_go(n, v, 1, 1)
       /\ UNCHANGED <<sess, parc, money, l_prev_df, df_pend_cache>>
    \/ /\ \E ids \in SUBSET (1..MaxSeqLanc), st \in StatusBaixa : batch_apply(ids, Hoje, st)
       /\ UNCHANGED <<sess, parc, money, l_prev_df, df_pend_cache>>
    \/ /\ \E id \in 1..MaxSeqLanc : edit_lanc_load(id)
       /\ UNCHANGED <<sess, parc, money, l_prev_df, df_pend_cache>>
    \/ /\ \E v \in ValoresBol, st \in StatusBaixa : edit_lanc_save("RECEITA", 1, v, Hoje, st)
       /\ UNCHANGED <<sess, parc, money, l_prev_df, df_pend_cache>>
    \/ /\ bol_rerun
       /\ UNCHANGED <<sess, parc, money, l_prev_df>>
    \/ /\ cache_ttl
       /\ UNCHANGED <<sess, parc, money, l_prev_df>>
    \/ /\ \E sel \in SUBSET (1..MaxSeqBol) : bol_gerar(sel, 1, 2, DescBoleto)
       /\ UNCHANGED <<sess, parc, money, l_prev_df>>

SpecBolBaixa == Init /\ [][BolBaixaNext]_vars

(***************************************************************************)
(* C29: a step that turns the status of an entry into 'Agrupada' does so   *)
(* only for an entry that, in the store at that moment, is a RECEITA with  *)
(* pending status (NULL counting as 'Pendente'), also when the listing is  *)
(* served from the 30-second cache after "Aplicar baixa" or an edit: an    *)
(* entry already settled or cancelled never becomes 'Agrupada'.            *)
(***************************************************************************)
C29_GroupsOnlyPending ==
    [][\A l \in DOMAIN lancamentos :
          (/\ l \in DOMAIN lancamentos'
           /\ lancamentos'[l].status = Agrupada
           /\ lancamentos[l].status # Agrupada)
              => /\ lancamentos[l].tipo = "RECEITA"
                 /\ Coalesce(lancamentos[l].status, Pendente) = Pendente]_vars

\* the entries the two CASE WHEN of saldo_conta_real let into the sum for the
\* account of that name
no_saldo_real(conta_nome) ==
    {l \in DOMAIN lancamentos :
        /\ lancamentos[l].conta_id \in conta_de_nome(conta_nome)
        /\ \/ /\ lancamentos[l].tipo = "RECEITA"
              /\ \/ ILike(Coalesce(lancamentos[l].status, Pendente),
                          <<"r", "e", "c", "e", "b", "i", "d", "o">>)
                 \/ lancamentos[l].dt_liquidacao # 0
           \/ /\ lancamentos[l].tipo = "DESPESA"
              /\ \/ ILike(Coalesce(lancamentos[l].status, Pendente), <<"p", "a", "g", "o">>)
                 \/ lancamentos[l].dt_liquidacao # 0}

(***************************************************************************)
(* C30: in every reachable state, for every account, no entry is counted   *)
(* both in saldo_conta_real and in previsao_receber_conta or               *)
(* previsao_pagar_conta: the entries of the settled balance and the        *)
(* entries of the two projected totals are disjoint sets.                  *)
(***************************************************************************)
C30_SettledPendingDisjoint ==
    \A c \in DOMAIN contas :
        no_saldo_real(contas[c].nome)
            \cap (pendentes(contas[c].nome, "RECEITA") \cup pendentes(contas[c].nome, "DESPESA"))
          = {}

=============================================================================
